---- MODULE Spec2Model ----
(***************************************************************************)
(* A model of the `versions` command line tool (index.ts): the semver      *)
(* rules (isSemver, incrementSemver), the resolution of the base version,  *)
(* the per-file mutation (getFileChanges) and the run of main().           *)
(* Strings of the program are TLA+ strings; the regular expressions of the *)
(* source are written out as the matching they perform.                    *)
(***************************************************************************)
EXTENDS Integers, Sequences, FiniteSets, TLC

\* ------------------------------------------------------------------------
\* Bounds of the model
\* ------------------------------------------------------------------------

\* Largest numeric component of a seed version in the semver specification.
MaxComponent == 10

\* Number of chained increments in the semver specification.
MaxSteps == 2

\* ------------------------------------------------------------------------
\* Strings
\* ------------------------------------------------------------------------

\* The character of s at position i, "" outside of s.
Ch(s, i) == IF i >= 1 /\ i <= Len(s) THEN SubSeq(s, i, i) ELSE ""

From(s, i) == SubSeq(s, i, Len(s))

Upto(s, i) == SubSeq(s, 1, i)

Digits == {"0", "1", "2", "3", "4", "5", "6", "7", "8", "9"}

Letters ==
  {"a", "b", "c", "d", "e", "f", "g", "h", "i", "j", "k", "l", "m",
   "n", "o", "p", "q", "r", "s", "t", "u", "v", "w", "x", "y", "z",
   "A", "B", "C", "D", "E", "F", "G", "H", "I", "J", "K", "L", "M",
   "N", "O", "P", "Q", "R", "S", "T", "U", "V", "W", "X", "Y", "Z"}

\* [0-9a-zA-Z-]
IdentChars == Digits \cup Letters \cup {"-"}

AllIn(s, cs) == \A i \in 1..Len(s) : Ch(s, i) \in cs

StartsWith(s, p) == Len(s) >= Len(p) /\ Upto(s, Len(p)) = p

EndsWith(s, p) == Len(s) >= Len(p) /\ From(s, Len(s) - Len(p) + 1) = p

\* Whether p occurs in s at position i.
At(s, i, p) == i >= 1 /\ i + Len(p) - 1 <= Len(s) /\ SubSeq(s, i, i + Len(p) - 1) = p

\* First position in lo..hi at which p occurs in s, 0 when there is none; the
\* range is searched by halves.
RECURSIVE IndexIn(_, _, _, _)
IndexIn(s, p, lo, hi) ==
  IF lo > hi THEN 0
  ELSE IF lo = hi THEN (IF At(s, lo, p) THEN lo ELSE 0)
  ELSE LET mid  == (lo + hi) \div 2
           left == IndexIn(s, p, lo, mid)
       IN IF left # 0 THEN left ELSE IndexIn(s, p, mid + 1, hi)

\* First position >= from at which p occurs in s, 0 when there is none.
IndexFrom(s, p, from) == IndexIn(s, p, from, Len(s) - Len(p) + 1)

IndexOf(s, p) == IndexFrom(s, p, 1)

Contains(s, p) == IndexOf(s, p) > 0

\* String.prototype.split with a non-empty separator.
RECURSIVE Split(_, _)
Split(s, sep) ==
  LET i == IndexOf(s, sep)
  IN IF i = 0 THEN <<s>>
     ELSE <<Upto(s, i - 1)>> \o Split(From(s, i + Len(sep)), sep)

\* Length of the longest run of characters of cs in s that starts at i.
RECURSIVE RunAt(_, _, _)
RunAt(s, i, cs) == IF Ch(s, i) \in cs THEN 1 + RunAt(s, i + 1, cs) ELSE 0

DigitVal(c) ==
  CASE c = "0" -> 0 [] c = "1" -> 1 [] c = "2" -> 2 [] c = "3" -> 3
    [] c = "4" -> 4 [] c = "5" -> 5 [] c = "6" -> 6 [] c = "7" -> 7
    [] c = "8" -> 8 [] c = "9" -> 9

DigitChar(d) ==
  CASE d = 0 -> "0" [] d = 1 -> "1" [] d = 2 -> "2" [] d = 3 -> "3"
    [] d = 4 -> "4" [] d = 5 -> "5" [] d = 6 -> "6" [] d = 7 -> "7"
    [] d = 8 -> "8" [] d = 9 -> "9"

\* Number(str) for a string of decimal digits.
RECURSIVE Number(_)
Number(s) ==
  IF Len(s) = 0 THEN 0
  ELSE 10 * Number(Upto(s, Len(s) - 1)) + DigitVal(Ch(s, Len(s)))

\* `${n}` for a non-negative integer.
RECURSIVE NumStr(_)
NumStr(n) ==
  IF n < 10 THEN DigitChar(n) ELSE NumStr(n \div 10) \o DigitChar(n % 10)

\* ------------------------------------------------------------------------
\* isSemver
\* ------------------------------------------------------------------------

\* A variant that takes numbers with leading zeros: \d+
IsNumericIdWithZeros(s) == Len(s) > 0 /\ AllIn(s, Digits)

\* 0|[1-9]\d*
IsNumericId(s) ==
  /\ Len(s) > 0
  /\ AllIn(s, Digits)
  /\ (Len(s) > 1 => Ch(s, 1) # "0")

\* 0|[1-9]\d*|\d*[a-zA-Z-][0-9a-zA-Z-]*
IsPrereleaseId(s) ==
  \/ IsNumericId(s)
  \/ /\ Len(s) > 0
     /\ AllIn(s, IdentChars)
     /\ \E i \in 1..Len(s) : Ch(s, i) \notin Digits

\* [0-9a-zA-Z-]+
IsBuildId(s) == Len(s) > 0 /\ AllIn(s, IdentChars)

\* str.replace(reVersionPrefix, "")
StripV(s) == IF StartsWith(s, "v") THEN From(s, 2) ELSE s

\* (0|[1-9]\d*)\.(0|[1-9]\d*)\.(0|[1-9]\d*)
IsCore(core) ==
  LET Good(nums) == Len(nums) = 3 /\ \A i \in 1..3 : IsNumericId(nums[i])
  IN Good(Split(core, "."))

\* Dot-separated prerelease identifiers.
IsPrereleaseList(pre) ==
  LET Good(ids) == \A i \in 1..Len(ids) : IsPrereleaseId(ids[i])
  IN Good(Split(pre, "."))

\* Dot-separated build identifiers.
IsBuildList(build) ==
  LET Good(ids) == \A i \in 1..Len(ids) : IsBuildId(ids[i])
  IN Good(Split(build, "."))

\* The part before the build: the core, and the prerelease behind the first
\* "-", which is at dash (0: there is none).
MatchesHead(head, dash) ==
  IF dash = 0 THEN IsCore(head)
  ELSE IsCore(Upto(head, dash - 1)) /\ IsPrereleaseList(From(head, dash + 1))

\* The text with its first "+" at plus (0: there is none).
MatchesParts(s, plus) ==
  IF plus = 0 THEN MatchesHead(s, IndexOf(s, "-"))
  ELSE /\ MatchesHead(Upto(s, plus - 1), IndexOf(Upto(s, plus - 1), "-"))
       /\ IsBuildList(From(s, plus + 1))

\* reSemver.test(s)
MatchesSemver(s) == MatchesParts(s, IndexOf(s, "+"))

isSemver(str) == MatchesSemver(StripV(str))

\* ------------------------------------------------------------------------
\* incrementSemver
\* ------------------------------------------------------------------------

\* Characters that `.` does not match.
LineTerminators == {"\n", "\r"}

\* (.*) at position i: the end of the longest run without a line terminator.
RECURSIVE RestEnd(_, _)
RestEnd(s, i) ==
  IF i > Len(s) \/ Ch(s, i) \in LineTerminators THEN i - 1
  ELSE RestEnd(s, i + 1)

\* The match of [0-9]+\.[0-9]+\.[0-9]+ at i, with the first run of digits
\* ending before j, the second before k and the third at e.
Triple(s, i, j, k, e) ==
  [ok    |-> j > i /\ Ch(s, j) = "." /\ k > j + 1 /\ Ch(s, k) = "." /\ e > k,
   start |-> i,
   d1    |-> SubSeq(s, i, j - 1),
   d2    |-> SubSeq(s, j + 1, k - 1),
   d3    |-> SubSeq(s, k + 1, e),
   end   |-> e]

TripleThird(s, i, j, k) == Triple(s, i, j, k, k + RunAt(s, k + 1, Digits))

TripleSecond(s, i, j) == TripleThird(s, i, j, j + 1 + RunAt(s, j + 1, Digits))

\* [0-9]+\.[0-9]+\.[0-9]+ at position i of s; a greedy digit run is the only
\* one that a "." can follow.
TripleAt(s, i) == TripleSecond(s, i, i + RunAt(s, i, Digits))

\* The leftmost match of reMajorVersion / reMinorVersion / rePatchVersion,
\* which differ in their groups only; (.*) runs to the end of the line.
RECURSIVE FirstTripleFrom(_, _)
FirstTripleFrom(s, i) ==
  LET Pick(t) == IF t.ok THEN t ELSE FirstTripleFrom(s, i + 1)
  IN IF i > Len(s) THEN [ok |-> FALSE] ELSE Pick(TripleAt(s, i))

FirstTriple(s) == FirstTripleFrom(s, 1)

\* str.replace(re, fn): the first match, groups included, gives way to `by`.
ReplaceTriple(s, m, by) ==
  IF ~m.ok THEN s
  ELSE Upto(s, m.start - 1) \o by \o From(s, RestEnd(s, m.end + 1) + 1)

\* The text (.*) captured.
TripleRest(s, m) == SubSeq(s, m.end + 1, RestEnd(s, m.end + 1))

Ok(v) == [ok |-> TRUE, val |-> v, err |-> ""]

Throw(e) == [ok |-> FALSE, val |-> "", err |-> e]

\* `${newVer}-${preid}.0` when a preid is given.
WithPreid(newVer, preid) ==
  IF preid # "" THEN newVer \o "-" \o preid \o ".0" ELSE newVer

incMajor(str) ==
  LET Bump(m) ==
        ReplaceTriple(str, m,
          IF m.ok THEN NumStr(Number(m.d1) + 1) \o ".0.0" ELSE "")
  IN Bump(FirstTriple(str))

\* incMinor with the patch component left as it was.
incMinorKeepsPatch(str) ==
  LET Bump(m) ==
        ReplaceTriple(str, m,
          IF m.ok THEN m.d1 \o "." \o NumStr(Number(m.d2) + 1) \o "." \o m.d3
          ELSE "")
  IN Bump(FirstTriple(str))

incMinor(str) ==
  LET Bump(m) ==
        ReplaceTriple(str, m,
          IF m.ok THEN m.d1 \o "." \o NumStr(Number(m.d2) + 1) \o ".0" ELSE "")
  IN Bump(FirstTriple(str))

\* incPatch with the text after the triple carried over.
incPatchCarriesRest(str) ==
  LET Bump(m) ==
        ReplaceTriple(str, m,
          IF m.ok THEN m.d1 \o "." \o m.d2 \o "." \o NumStr(Number(m.d3) + 1)
                       \o TripleRest(str, m)
          ELSE "")
  IN Bump(FirstTriple(str))

incPatch(str) ==
  LET Bump(m) ==
        ReplaceTriple(str, m,
          IF m.ok THEN m.d1 \o "." \o m.d2 \o "." \o NumStr(Number(m.d3) + 1)
          ELSE "")
  IN Bump(FirstTriple(str))

\* The last return of incrementSemver: a level that is none of the four.
incOther(str) ==
  LET Bump(m) ==
        ReplaceTriple(str, m,
          IF m.ok THEN m.d1 \o "." \o m.d2 \o "." \o NumStr(Number(m.d3) + 1)
                       \o TripleRest(str, m)
          ELSE "")
  IN Bump(FirstTriple(str))

\* Length of the longest match of [a-zA-Z0-9-]+(?:\.[a-zA-Z0-9-]+)* at i.
RECURSIVE IdListRun(_, _)
IdListRun(s, i) ==
  LET More(r) ==
        IF r = 0 THEN 0
        ELSE IF Ch(s, i + r) = "." /\ Ch(s, i + r + 1) \in IdentChars
             THEN r + 1 + IdListRun(s, i + r + 1)
             ELSE r
  IN More(RunAt(s, i, IdentChars))

\* The groups of rePrereleaseVersion for the triple m at the start of str and
\* a prerelease of n characters.
PrereleaseGroups(str, m, n) ==
  [ok         |-> m.ok,
   major      |-> IF m.ok THEN m.d1 ELSE "",
   minor      |-> IF m.ok THEN m.d2 ELSE "",
   patch      |-> IF m.ok THEN m.d3 ELSE "",
   prerelease |-> IF n > 0 THEN SubSeq(str, m.end + 2, m.end + 1 + n) ELSE ""]

\* rePrereleaseVersion.exec(str)
PrereleaseMatch(str) ==
  LET Groups(m) ==
        PrereleaseGroups(str, m,
          IF m.ok /\ Ch(str, m.end + 1) = "-"
          THEN IdListRun(str, m.end + 2) ELSE 0)
  IN Groups(TripleAt(str, 1))

\* rePrereleaseIdNum.exec(prerelease)
PrereleaseIdNum(prerelease) ==
  LET Parts(id, num) ==
        [ok  |-> Len(id) > 0 /\ AllIn(id, IdentChars)
                 /\ Len(num) > 0 /\ AllIn(num, Digits),
         id  |-> id,
         num |-> num]
      Cut(dot) ==
        IF dot = 0 THEN Parts("", "")
        ELSE Parts(Upto(prerelease, dot - 1), From(prerelease, dot + 1))
  IN Cut(IndexOf(prerelease, "."))

\* incPrerelease that starts the counter again where it should count on.
incPrereleaseRestarts(str, preid) ==
  LET Result(match) ==
        IF preid = "" THEN Throw("prerelease requires --preid option")
        ELSE IF ~match.ok THEN Throw("Invalid semver")
        ELSE IF match.prerelease = ""
             THEN Ok(match.major \o "." \o match.minor \o "."
                     \o NumStr(Number(match.patch) + 1) \o "-" \o preid \o ".0")
        ELSE Ok(match.major \o "." \o match.minor \o "." \o match.patch
                \o "-" \o preid \o ".0")
  IN Result(PrereleaseMatch(str))

\* A variant that bumps the patch at every increment of the counter.
NextPrereleaseBumpsPatch(match, idnum, preid) ==
  IF match.prerelease = "" \/ (idnum.ok /\ idnum.id = preid)
  THEN match.major \o "." \o match.minor \o "."
       \o NumStr(Number(match.patch) + 1) \o "-" \o preid \o "."
       \o (IF match.prerelease = "" THEN "0"
           ELSE NumStr(Number(idnum.num) + 1))
  ELSE match.major \o "." \o match.minor \o "." \o match.patch
       \o "-" \o preid \o ".0"

\* The prerelease of the version matched, for the groups idnum of its
\* prerelease part.
NextPrerelease(match, idnum, preid) ==
  IF match.prerelease = ""
  THEN match.major \o "." \o match.minor \o "."
       \o NumStr(Number(match.patch) + 1) \o "-" \o preid \o ".0"
  ELSE IF idnum.ok /\ idnum.id = preid
       THEN match.major \o "." \o match.minor \o "." \o match.patch
            \o "-" \o preid \o "." \o NumStr(Number(idnum.num) + 1)
  ELSE match.major \o "." \o match.minor \o "." \o match.patch
       \o "-" \o preid \o ".0"

incPrerelease(str, preid) ==
  LET Result(match) ==
        IF preid = "" THEN Throw("prerelease requires --preid option")
        ELSE IF ~match.ok THEN Throw("Invalid semver")
        ELSE Ok(NextPrerelease(match, PrereleaseIdNum(match.prerelease), preid))
  IN Result(PrereleaseMatch(str))

\* incrementSemver(str, level, preid); no preid is "".
incrementSemver(str, level, preid) ==
  IF ~isSemver(str) THEN Throw("Invalid semver")
  ELSE IF level = "major" THEN Ok(WithPreid(incMajor(str), preid))
  ELSE IF level = "minor" THEN Ok(WithPreid(incMinor(str), preid))
  ELSE IF level = "patch" THEN Ok(WithPreid(incPatch(str), preid))
  ELSE IF level = "prerelease" THEN incPrerelease(str, preid)
  ELSE Ok(incOther(str))

\* ------------------------------------------------------------------------
\* Text replacement
\* ------------------------------------------------------------------------

\* str.replace(new RegExp(esc(pat)), by): the first literal occurrence.
ReplaceFirst(s, pat, by) ==
  LET Put(i) ==
        IF i = 0 THEN s ELSE Upto(s, i - 1) \o by \o From(s, i + Len(pat))
  IN IF Len(pat) = 0 THEN s ELSE Put(IndexOf(s, pat))

\* str.replace(new RegExp(esc(pat), "g"), by): every literal occurrence, left
\* to right, without overlap.
RECURSIVE ReplaceAll(_, _, _)
ReplaceAll(s, pat, by) ==
  LET Put(i) ==
        IF i = 0 THEN s
        ELSE Upto(s, i - 1) \o by \o ReplaceAll(From(s, i + Len(pat)), pat, by)
  IN IF Len(pat) = 0 THEN s ELSE Put(IndexOf(s, pat))

\* reEscapeChars
EscapeChars ==
  {"|", "\\", "{", "}", "(", ")", "[", "]", "^", "$", "+", "*", "?", ".", "-"}

\* esc that leaves the dots of str as they are.
RECURSIVE escKeepsDots(_)
escKeepsDots(str) ==
  IF str = "" THEN ""
  ELSE (IF Ch(str, 1) \in EscapeChars \ {"."} THEN "\\" ELSE "") \o Ch(str, 1)
       \o escKeepsDots(From(str, 2))

\* esc(str): str.replace(reEscapeChars, "\\$&")
RECURSIVE esc(_)
esc(str) ==
  IF str = "" THEN ""
  ELSE (IF Ch(str, 1) \in EscapeChars THEN "\\" ELSE "") \o Ch(str, 1)
       \o esc(From(str, 2))

\* new RegExp(re) matched against s at position i, for a pattern of escaped
\* characters, dots and plain characters: the position behind the match, 0
\* for no match.
RECURSIVE PatternEnd(_, _, _)
PatternEnd(s, i, re) ==
  IF re = "" THEN i
  ELSE IF Ch(re, 1) = "\\"
       THEN (IF Len(re) >= 2 /\ Ch(s, i) = Ch(re, 2)
             THEN PatternEnd(s, i + 1, From(re, 3)) ELSE 0)
  ELSE IF Ch(re, 1) = "."
       THEN (IF i <= Len(s) /\ Ch(s, i) \notin {"\n", "\r"}
             THEN PatternEnd(s, i + 1, From(re, 2)) ELSE 0)
  ELSE IF Ch(s, i) = Ch(re, 1) THEN PatternEnd(s, i + 1, From(re, 2))
  ELSE 0

\* First position in lo..hi at which the pattern matches, 0 for none.
RECURSIVE PatternIn(_, _, _, _)
PatternIn(s, re, lo, hi) ==
  LET Right(left, mid) ==
        IF left # 0 THEN left ELSE PatternIn(s, re, mid + 1, hi)
      Halves(mid) == Right(PatternIn(s, re, lo, mid), mid)
  IN IF lo > hi THEN 0
     ELSE IF lo = hi THEN (IF PatternEnd(s, lo, re) # 0 THEN lo ELSE 0)
     ELSE Halves((lo + hi) \div 2)

\* s.replace(new RegExp(re, "g"), by) for a replacement without "$".
RECURSIVE ReplacePattern(_, _, _)
ReplacePattern(s, re, by) ==
  LET Cut(k, e) ==
        Upto(s, k - 1) \o by \o ReplacePattern(From(s, e), re, by)
      Put(k) == IF k = 0 THEN s ELSE Cut(k, PatternEnd(s, k, re))
  IN IF re = "" THEN s ELSE Put(PatternIn(s, re, 1, Len(s)))

\* basename(file)
RECURSIVE basename(_)
basename(file) ==
  LET Last(i) == IF i = 0 THEN file ELSE basename(From(file, i + 1))
  IN Last(IndexOf(file, "/"))

\* replaceTokens(str, newVersion): major, minor and patch are the first three
\* pieces of newVersion.split(".").
replaceTokens(str, newVer) ==
  LET Piece(parts, i) == IF Len(parts) >= i THEN parts[i] ELSE "undefined"
      Expand(parts) ==
        ReplaceAll(ReplaceAll(ReplaceAll(ReplaceAll(str,
          "_VER_", newVer), "_MAJOR_", Piece(parts, 1)), "_MINOR_", Piece(parts, 2)),
          "_PATCH_", Piece(parts, 3))
  IN Expand(Split(newVer, "."))

\* reReplaceString.exec(replaceStr) and the check of its groups: the rule
\* s#re#replacement#flags, [ok |-> FALSE] for an invalid replace string.
ParseReplaceString(replaceStr) ==
  LET Rule(i1, i2) ==
        IF i2 = 0 THEN [ok |-> FALSE, re |-> "", replacement |-> "", flags |-> ""]
        ELSE [ok          |-> TRUE,
              re          |-> SubSeq(replaceStr, 3, i1 - 1),
              replacement |-> SubSeq(replaceStr, i1 + 1, i2 - 1),
              flags       |-> From(replaceStr, i2 + 1)]
      Second(i1) ==
        Rule(i1, IF i1 = 0 THEN 0 ELSE IndexFrom(replaceStr, "#", i1 + 2))
  IN Second(IF StartsWith(replaceStr, "s#") THEN IndexFrom(replaceStr, "#", 4)
            ELSE 0)

\* main: the replacements built from args.replace, tokens expanded.  The
\* patterns of the model are literal text.
RECURSIVE Replacements(_, _)
Replacements(replace, newVer) ==
  LET Built(r) ==
        <<[re |-> r.re, flags |-> r.flags,
           replacement |-> replaceTokens(r.replacement, newVer)]>>
  IN IF replace = <<>> THEN <<>>
     ELSE Built(ParseReplaceString(Head(replace)))
          \o Replacements(Tail(replace), newVer)

\* Whether every replace string of args.replace is valid.
ReplaceStringsValid(replace) ==
  \A i \in 1..Len(replace) : ParseReplaceString(replace[i]).ok

\* newData.replace(replacement.re, replacement.replacement) for each rule in
\* the order given.
RECURSIVE ApplyReplacements(_, _)
ApplyReplacements(data, rules) ==
  IF rules = <<>> THEN data
  ELSE LET r == Head(rules)
       IN ApplyReplacements(
            IF Contains(r.flags, "g") THEN ReplaceAll(data, r.re, r.replacement)
            ELSE ReplaceFirst(data, r.re, r.replacement),
            Tail(rules))

\* [0-9]{4}-[0-9]{2}-[0-9]{2} at position k.
DateAt(s, k) ==
  /\ k + 9 <= Len(s)
  /\ AllIn(SubSeq(s, k, k + 3), Digits)
  /\ Ch(s, k + 4) = "-"
  /\ AllIn(SubSeq(s, k + 5, k + 6), Digits)
  /\ Ch(s, k + 7) = "-"
  /\ AllIn(SubSeq(s, k + 8, k + 9), Digits)

\* Whether reDatePattern matches at position k: the character before the
\* date, or the start of the text, then the date, then the character after
\* it, or the end of the text.
DateMatchAt(s, k) ==
  \/ k <= Len(s) /\ Ch(s, k) \notin Digits /\ DateAt(s, k + 1)
       /\ Ch(s, k + 11) \notin Digits
  \/ k = 1 /\ DateAt(s, 1) /\ Ch(s, 11) \notin Digits

\* First position in lo..hi at which reDatePattern matches, 0 for none.
RECURSIVE NextDateMatch(_, _, _)
NextDateMatch(s, lo, hi) ==
  IF lo > hi THEN 0
  ELSE IF lo = hi THEN (IF DateMatchAt(s, lo) THEN lo ELSE 0)
  ELSE LET mid  == (lo + hi) \div 2
           left == NextDateMatch(s, lo, mid)
       IN IF left # 0 THEN left ELSE NextDateMatch(s, mid + 1, hi)

\* newData.replace(reDatePattern, (_, p1, p2) => `${p1}${date}${p2}`) from
\* position i on; the search goes on behind the match, which has taken the
\* character after the date.
RECURSIVE ReplaceDatesFrom(_, _, _)
ReplaceDatesFrom(s, i, date) ==
  LET Put(d) ==
        SubSeq(s, i, d - 1) \o date \o Ch(s, d + 10)
        \o ReplaceDatesFrom(s, d + 11, date)
      Match(k) ==
        IF k = 0 THEN From(s, i)
        ELSE Put(IF Ch(s, k) \notin Digits THEN k + 1 ELSE k)
  IN Match(NextDateMatch(s, i, Len(s)))

ReplaceDates(s, date) == ReplaceDatesFrom(s, 1, date)

\* ------------------------------------------------------------------------
\* package-lock.json: JSON.parse and JSON.stringify(lockFile, null, 2) over the
\* lockfiles of the model, which hold the package's own version at the top
\* level and under packages[""], and one dependency.  An absent version is "".
\* ------------------------------------------------------------------------

LockVersions == {"", "1.0.0", "1.0.1", "2.0.0", "2.0.1", "2.0.1-alpha.0"}

LockFiles ==
  [version : LockVersions, packages : BOOLEAN,
   rootVersion : LockVersions, depVersion : {"1.0.0", "2.0.0"}]

\* JSON.stringify(lockFile, null, 2)
Stringify(lockFile) ==
  "{\n  \"name\": \"pkg\",\n"
  \o (IF lockFile.version # ""
      THEN "  \"version\": \"" \o lockFile.version \o "\",\n" ELSE "")
  \o "  \"lockfileVersion\": 3"
  \o (IF lockFile.packages
      THEN ",\n  \"packages\": {\n    \"\": {\n      \"name\": \"pkg\""
           \o (IF lockFile.rootVersion # ""
               THEN ",\n      \"version\": \"" \o lockFile.rootVersion \o "\"" ELSE "")
           \o "\n    },\n    \"node_modules/dep\": {\n      \"version\": \""
           \o lockFile.depVersion \o "\"\n    }\n  }"
      ELSE "")
  \o "\n}"

\* The same lockfile written without white space, as JSON.stringify(lockFile).
StringifyCompact(lockFile) ==
  "{\"name\":\"pkg\","
  \o (IF lockFile.version # ""
      THEN "\"version\":\"" \o lockFile.version \o "\"," ELSE "")
  \o "\"lockfileVersion\":3"
  \o (IF lockFile.packages
      THEN ",\"packages\":{\"\":{\"name\":\"pkg\""
           \o (IF lockFile.rootVersion # ""
               THEN ",\"version\":\"" \o lockFile.rootVersion \o "\"" ELSE "")
           \o "},\"node_modules/dep\":{\"version\":\""
           \o lockFile.depVersion \o "\"}}"
      ELSE "")
  \o "}"

\* The lockfiles that data is a text of; packages[""] is only there with
\* packages.
ParsedAs(data) ==
  {l \in LockFiles :
     /\ (~l.packages => l.rootVersion = "")
     /\ \/ data = StringifyCompact(l)
        \/ data \in {Stringify(l), Stringify(l) \o "\n"}}

\* JSON.parse(oldData): throws for a text that is no JSON.
JsonParse(data) ==
  LET Result(ls) ==
        IF ls = {} THEN [ok |-> FALSE]
        ELSE [ok |-> TRUE, val |-> CHOOSE l \in ls : TRUE]
  IN Result(ParsedAs(data))

\* ------------------------------------------------------------------------
\* pyproject.toml as far as the tool reads it
\* ------------------------------------------------------------------------

Quotes == {"\"", "'"}

\* Position of the first line terminator of s, 0 when there is none.
RECURSIVE LineEndFrom(_, _)
LineEndFrom(s, i) ==
  IF i > Len(s) THEN 0
  ELSE IF Ch(s, i) \in LineTerminators THEN i
  ELSE LineEndFrom(s, i + 1)

\* The lines of s, without their terminators.
RECURSIVE Lines(_)
Lines(s) ==
  LET Cut(e) ==
        IF e = 0 THEN <<s>> ELSE <<Upto(s, e - 1)>> \o Lines(From(s, e + 1))
  IN Cut(LineEndFrom(s, 1))

\* The value of a line `key = "value"`, [ok |-> FALSE] for any other line.
TomlString(line, key) ==
  LET Value(last) ==
        IF StartsWith(line, key \o " = \"") /\ last > 0
        THEN [ok |-> TRUE, val |-> SubSeq(line, Len(key) + 5, last - 1)]
        ELSE [ok |-> FALSE, val |-> ""]
  IN Value(IndexFrom(line, "\"", Len(key) + 5))

\* The string at `key` of table [table], "" when the table or the key is
\* not there: the lines after the table's header, up to the next header.
RECURSIVE TomlLookupIn(_, _, _, _)
TomlLookupIn(lines, table, key, inside) ==
  LET Found(line, str) ==
        IF StartsWith(line, "[")
        THEN TomlLookupIn(Tail(lines), table, key, line = "[" \o table \o "]")
        ELSE IF inside /\ str.ok THEN str.val
        ELSE TomlLookupIn(Tail(lines), table, key, inside)
  IN IF lines = <<>> THEN ""
     ELSE Found(Head(lines), TomlString(Head(lines), key))

TomlLookup(text, table, key) == TomlLookupIn(Lines(text), table, key, FALSE)

\* Whether parse(text) of smol-toml returns: every line is empty, a table
\* header or an assignment.
TomlParses(text) ==
  LET Good(lines) ==
        \A i \in 1..Len(lines) :
          lines[i] = "" \/ StartsWith(lines[i], "[") \/ Contains(lines[i], " = ")
  IN Good(Lines(text))

\* ------------------------------------------------------------------------
\* getFileChanges
\* ------------------------------------------------------------------------

\* A file system maps a path to [kind, data]; kind is "file", "dir" (a
\* directory) or "unreadable" (a file that cannot be opened).
Exists(fs, file) == file \in DOMAIN fs

\* readFileSync(file, "utf8")
ReadFile(fs, file) ==
  IF Exists(fs, file) /\ fs[file].kind = "file" THEN Ok(fs[file].data)
  ELSE Throw("cannot read " \o file)

\* package.json: the first match of ("version":[^]*?")BASE("), which is the
\* first "BASE" in quotes behind the first "version": of the text.
PackageJsonChange(oldData, base, new) ==
  LET Put(hit) ==
        IF hit = 0 THEN oldData
        ELSE Upto(oldData, hit) \o new \o From(oldData, hit + 1 + Len(base))
      Behind(key) ==
        Put(IF key = 0 THEN 0
            ELSE IndexFrom(oldData, "\"" \o base \o "\"", key + 10))
  IN Behind(IndexOf(oldData, "\"version\":"))

\* if (lockFile.version) lockFile.version = newVersion
SetVersion(lockFile, new) ==
  IF lockFile.version # "" THEN [lockFile EXCEPT !.version = new] ELSE lockFile

\* SetRootVersion that sets the version of the dependency as well.
SetRootVersionAndDeps(lockFile, new) ==
  IF lockFile.packages /\ lockFile.rootVersion # ""
  THEN [lockFile EXCEPT !.rootVersion = new, !.depVersion = new] ELSE lockFile

\* if (lockFile?.packages?.[""]?.version) lockFile.packages[""].version = newVersion
SetRootVersion(lockFile, new) ==
  IF lockFile.packages /\ lockFile.rootVersion # ""
  THEN [lockFile EXCEPT !.rootVersion = new] ELSE lockFile

\* package-lock.json: the parsed lockfile with its root versions set, written
\* with JSON.stringify(lockFile, null, 2) and a newline.
PackageLockChange(oldData, new) ==
  LET Change(parsed) ==
        IF ~parsed.ok THEN Throw("JSON.parse")
        ELSE Ok(Stringify(SetRootVersion(SetVersion(parsed.val, new), new)) \o "\n")
  IN Change(JsonParse(oldData))

\* One line of pyproject.toml under (^version ?= ?["'])BASE(["'].*)
PyprojectLine(line, base, new) ==
  LET Put(eq, q) ==
        IF /\ StartsWith(line, "version")
           /\ Ch(line, eq) = "="
           /\ Ch(line, q) \in Quotes
           /\ At(line, q + 1, base)
           /\ Ch(line, q + 1 + Len(base)) \in Quotes
        THEN Upto(line, q) \o new \o From(line, q + 1 + Len(base))
        ELSE line
      Quote(eq) == Put(eq, IF Ch(line, eq + 1) = " " THEN eq + 2 ELSE eq + 1)
  IN Quote(IF Ch(line, 8) = " " THEN 9 ELSE 8)

\* pyproject.toml: the replacement with flags gm, line by line.
RECURSIVE PyprojectChange(_, _, _)
PyprojectChange(oldData, base, new) ==
  LET Cut(e) ==
        IF e = 0 THEN PyprojectLine(oldData, base, new)
        ELSE PyprojectLine(Upto(oldData, e - 1), base, new) \o Ch(oldData, e)
             \o PyprojectChange(From(oldData, e + 1), base, new)
  IN Cut(LineEndFrom(oldData, 1))

\* The match of (\[\[package\]\]\r?\n.+NAME.+\r?\nversion = ").+?(") at i,
\* where nl1 ends the first line, e is behind the second, nl2 ends it, the
\* name is at k of the second line, and q is the quote behind the version:
\* the span of .+?, the version, or [ok |-> FALSE].
UvMatch(s, i, name, nl1, e, nl2, k, q, stop) ==
  IF /\ At(s, i, "[[package]]")
     /\ Ch(s, nl1) = "\n"
     /\ e > 0
     /\ k > 0 /\ k + Len(name) <= e - 1 - nl1
     /\ Ch(s, nl2) = "\n"
     /\ At(s, nl2 + 1, "version = \"")
     /\ q > 0
     /\ (stop = 0 \/ stop > q)
  THEN [ok |-> TRUE, from |-> nl2 + 12, to |-> q - 1]
  ELSE [ok |-> FALSE, from |-> 0, to |-> 0]

UvVersionLine(s, i, name, nl1, e, nl2) ==
  UvMatch(s, i, name, nl1, e, nl2,
          IndexFrom(SubSeq(s, nl1 + 1, e - 1), name, 2),
          IndexFrom(s, "\"", nl2 + 13),
          LineEndFrom(s, nl2 + 12))

UvNameLine(s, i, name, nl1, e) ==
  UvVersionLine(s, i, name, nl1, e, IF Ch(s, e) = "\r" THEN e + 1 ELSE e)

UvHeaderLine(s, i, name, nl1) ==
  UvNameLine(s, i, name, nl1, LineEndFrom(s, nl1 + 1))

UvMatchAt(s, i, name) ==
  UvHeaderLine(s, i, name, IF Ch(s, i + 11) = "\r" THEN i + 12 ELSE i + 11)

\* The leftmost match from position i on.
RECURSIVE UvFirstMatch(_, _, _)
UvFirstMatch(s, i, name) ==
  LET Pick(p, m) == IF m.ok THEN m ELSE UvFirstMatch(s, p + 1, name)
      Try(p) ==
        IF p = 0 THEN [ok |-> FALSE, from |-> 0, to |-> 0]
        ELSE Pick(p, UvMatchAt(s, p, name))
  IN Try(IndexFrom(s, "[[package]]", i))

\* uv.lock with the project name given.
UvLockPut(oldData, m, new) ==
  IF ~m.ok THEN oldData
  ELSE Upto(oldData, m.from - 1) \o new \o From(oldData, m.to + 1)

UvLockNamed(oldData, name, new) ==
  IF name = "" THEN Throw("TypeError")
  ELSE Ok(UvLockPut(oldData, UvFirstMatch(oldData, 1, name), new))

\* uv.lock: the project name is read from the pyproject.toml beside it.
UvLockChange(oldData, proj, new) ==
  IF ~proj.ok THEN Throw(proj.err)
  ELSE IF ~TomlParses(proj.val) THEN Throw("toml parse")
  ELSE UvLockNamed(oldData, TomlLookup(proj.val, "project", "name"), new)

\* file.replace(/uv\.lock$/, "pyproject.toml")
SiblingPyproject(file) ==
  IF EndsWith(file, "uv.lock")
  THEN Upto(file, Len(file) - 7) \o "pyproject.toml" ELSE file

\* A variant that treats package-lock.json and uv.lock like a file of no
\* special format.
VersionChangeByBase(fs, file, oldData, base, new) ==
  LET fileName == basename(file)
  IN IF fileName = "package.json" THEN Ok(PackageJsonChange(oldData, base, new))
     ELSE IF fileName = "pyproject.toml" THEN Ok(PyprojectChange(oldData, base, new))
     ELSE Ok(ReplacePattern(oldData, esc(base), new))

\* The version substitution by file name.
VersionChange(fs, file, oldData, base, new) ==
  LET fileName == basename(file)
  IN IF fileName = "package.json" THEN Ok(PackageJsonChange(oldData, base, new))
     ELSE IF fileName = "package-lock.json" THEN PackageLockChange(oldData, new)
     ELSE IF fileName = "pyproject.toml" THEN Ok(PyprojectChange(oldData, base, new))
     ELSE IF fileName = "uv.lock"
          THEN UvLockChange(oldData, ReadFile(fs, SiblingPyproject(file)), new)
     ELSE Ok(ReplacePattern(oldData, esc(base), new))

\* PostProcess with the replacements in front of the date pass.
PostProcessRulesFirst(data, replacements, date) ==
  LET Stamp(d) == IF date # "" THEN ReplaceDates(d, date) ELSE d
  IN Stamp(ApplyReplacements(data, replacements))

\* The date and replacement passes behind the version substitution.
PostProcess(data, replacements, date) ==
  ApplyReplacements(IF date # "" THEN ReplaceDates(data, date) ELSE data,
                    replacements)

\* getFileChanges without the comparison of the old and the new data.
getFileChangesUnguarded(fs, file, base, new, replacements, date) ==
  LET Finish(changed) ==
        IF ~changed.ok THEN Throw(changed.err)
        ELSE Ok(PostProcess(changed.val, replacements, date))
      Change(old) ==
        IF ~old.ok THEN Throw(old.err)
        ELSE Finish(VersionChange(fs, file, old.val, base, new))
  IN Change(ReadFile(fs, file))

\* getFileChanges({file, baseVersion, newVersion, replacements, date}): the new
\* data of the file, or the error thrown.
getFileChanges(fs, file, base, new, replacements, date) ==
  LET Compare(oldData, newData) ==
        IF oldData = newData THEN Throw("No replacement made") ELSE Ok(newData)
      Finish(oldData, changed) ==
        IF ~changed.ok THEN Throw(changed.err)
        ELSE Compare(oldData, PostProcess(changed.val, replacements, date))
      Change(old) ==
        IF ~old.ok THEN Throw(old.err)
        ELSE Finish(old.val, VersionChange(fs, file, old.val, base, new))
  IN Change(ReadFile(fs, file))

\* ------------------------------------------------------------------------
\* State
\* ------------------------------------------------------------------------

VARIABLES
  pc,           \* the position of the run
  level,        \* the level positional: patch, minor, major, prerelease
  preid,        \* args.preid, "" when not given
  args,         \* the other options: base, gitless, dry, date, command, release,
                \* files, replace
  tagsOut,      \* what `git tag --list --sort=-creatordate` prints
  manifest,     \* the package.json found from the project root
  descriptor,   \* the pyproject.toml found from the project root
  fs,           \* the files on disk
  fs0,          \* the files on disk when the run started
  baseVersion,  \* main: baseVersion
  newVersion,   \* main: newVersion
  todo,         \* main: todo, the [file, newData] pairs computed so far
  idx,          \* the position of the running loop over files
  reads,        \* the target files read by getFileChanges
  log,          \* the external steps started: command, commit, tag
  exitCode,     \* the exit code, -1 while the process runs
  endedIn,      \* the position at which the process exited
  errMsg,       \* the message of the error that ended the run, "" for none
  steps         \* increments made so far in the semver specification

vars ==
  <<pc, level, preid, args, tagsOut, manifest, descriptor, fs, fs0, baseVersion,
    newVersion, todo, idx, reads, log, exitCode, endedIn, errMsg, steps>>

\* The variables of a run of main other than pc, the versions and errMsg.
runVars ==
  <<args, tagsOut, manifest, descriptor, fs, fs0, todo, idx, reads, log,
    exitCode, endedIn>>

NoArgs ==
  [base |-> "", gitless |-> FALSE, dry |-> FALSE, date |-> FALSE,
   command |-> FALSE, release |-> FALSE, files |-> <<>>, replace |-> <<>>]

NoManifest == [found |-> FALSE, parses |-> FALSE, version |-> ""]

\* projectIsString: whether project.version, when there is one, is a TOML
\* string; the text of a number is its decimal form.
NoDescriptor ==
  [found |-> FALSE, parses |-> FALSE, project |-> "", projectIsString |-> TRUE,
   poetry |-> ""]

EmptyFs == [f \in {} |-> [kind |-> "file", data |-> ""]]

\* The state of the variables that a specification does not use.
Idle ==
  /\ args = NoArgs
  /\ tagsOut = ""
  /\ manifest = NoManifest
  /\ descriptor = NoDescriptor
  /\ fs = EmptyFs
  /\ fs0 = EmptyFs
  /\ todo = <<>>
  /\ idx = 0
  /\ reads = {}
  /\ log = <<>>
  /\ exitCode = -1
  /\ endedIn = ""

Levels == {"patch", "minor", "major", "prerelease"}

NumericLevels == {"patch", "minor", "major"}

\* --preid values; "" is the option not given.  The option takes any string:
\* "01" is one that is no prerelease identifier of a semver.
Preids == {"", "alpha", "pre-1", "01"}

\* ------------------------------------------------------------------------
\* The semver specification: incrementSemver applied to a seed version and
\* then to its own results, as successive runs with --base do.
\* ------------------------------------------------------------------------

SeedSuffixes ==
  {"", "-pre-1.0.0", "-alpha.0", "-alpha.9", "-beta.1", "-alpha",
   "-alpha.beta.1", "-1.2", "+build.5", "-alpha.1+b-7"}

InvalidSeeds == {"invalid", "1.0", "1.2.3-0123", "01.0.0", "1.0.0-", "vv1.0.0"}

\* The numeric triples of the seeds: small, mixed, and around a carry.
SeedTriples ==
  {<<0, 0, 0>>, <<1, 2, 3>>,
   <<MaxComponent - 1, MaxComponent - 1, MaxComponent - 1>>,
   <<MaxComponent, MaxComponent, MaxComponent>>}

SeedVersions ==
  {NumStr(t[1]) \o "." \o NumStr(t[2]) \o "." \o NumStr(t[3]) \o suf :
     t \in SeedTriples, suf \in SeedSuffixes}
  \cup {"v1.2.3", "v1.0.0-alpha.1"}
  \cup InvalidSeeds

\* The version the next increment starts from.
Current == IF steps = 0 THEN baseVersion ELSE newVersion

InitSemver ==
  /\ pc = "semver"
  /\ level = ""
  /\ preid = ""
  /\ baseVersion \in SeedVersions
  /\ newVersion = ""
  /\ errMsg = ""
  /\ steps = 0
  /\ Idle

\* incrementSemver returns.
SemverIncrement(l, p) ==
  LET r == incrementSemver(Current, l, p)
  IN /\ pc = "semver"
     /\ steps < MaxSteps
     /\ r.ok
     /\ level' = l
     /\ preid' = p
     /\ baseVersion' = Current
     /\ newVersion' = r.val
     /\ steps' = steps + 1
     /\ UNCHANGED <<pc, errMsg, runVars>>

\* incrementSemver throws.
SemverThrow(l, p) ==
  LET r == incrementSemver(Current, l, p)
  IN /\ pc = "semver"
     /\ steps < MaxSteps
     /\ ~r.ok
     /\ level' = l
     /\ preid' = p
     /\ baseVersion' = Current
     /\ newVersion' = ""
     /\ errMsg' = r.err
     /\ pc' = "thrown"
     /\ steps' = steps + 1
     /\ UNCHANGED runVars

NextSemver ==
  \E l \in Levels, p \in Preids :
    \/ SemverIncrement(l, p)
    \/ SemverThrow(l, p)

SpecSemver == InitSemver /\ [][NextSemver]_vars

\* ------------------------------------------------------------------------
\* The Version of the data model, read off a version string: an optional
\* leading "v", the numeric triple, the prerelease and the build metadata.
\* ------------------------------------------------------------------------

VPrefix(v) == IF StartsWith(v, "v") THEN "v" ELSE ""

\* Position of the first "-" or "+" of s, 0 when there is none.
SuffixStart(s) ==
  LET d == IndexOf(s, "-")
      b == IndexOf(s, "+")
  IN IF d = 0 THEN b ELSE IF b = 0 THEN d ELSE IF d < b THEN d ELSE b

\* The suffix of v, from its "-" or "+" on.
VSuffix(v) ==
  LET s == StripV(v)
  IN IF SuffixStart(s) = 0 THEN "" ELSE From(s, SuffixStart(s))

\* <<major, minor, patch>> of v.
VCore(v) ==
  LET s    == StripV(v)
      core == IF SuffixStart(s) = 0 THEN s ELSE Upto(s, SuffixStart(s) - 1)
      nums == Split(core, ".")
  IN IF Len(nums) = 3 /\ \A i \in 1..3 : Len(nums[i]) > 0 /\ AllIn(nums[i], Digits)
     THEN <<Number(nums[1]), Number(nums[2]), Number(nums[3])>>
     ELSE <<-1, -1, -1>>

\* The prerelease of v without its "-", "" when v has none.
VPrerelease(v) ==
  LET suf  == VSuffix(v)
      plus == IndexOf(suf, "+")
  IN IF ~StartsWith(suf, "-") THEN ""
     ELSE IF plus = 0 THEN From(suf, 2) ELSE SubSeq(suf, 2, plus - 1)

TripleStr(t) == NumStr(t[1]) \o "." \o NumStr(t[2]) \o "." \o NumStr(t[3])

\* The triple a numeric level turns t into.
Bumped(t, l) ==
  CASE l = "major" -> <<t[1] + 1, 0, 0>>
    [] l = "minor" -> <<t[1], t[2] + 1, 0>>
    [] l = "patch" -> <<t[1], t[2], t[3] + 1>>

\* An increment has just returned newVersion for baseVersion.
Incremented == pc = "semver" /\ steps > 0

\* ------------------------------------------------------------------------
\* Claims about incrementSemver (SpecSemver)
\* ------------------------------------------------------------------------

\* C7: for a valid semver and a level of patch, minor, major without preid,
\* the targeted numeric component rises by 1, the components of lower
\* significance become 0 and those of higher significance stay.
C7_NumericBump ==
  (Incremented /\ level \in NumericLevels /\ preid = "")
    => VCore(newVersion) = Bumped(VCore(baseVersion), level)

\* C7 witness: a major bump across a carry, 9.9.9 to 10.0.0.
C7_Witness ==
  /\ Incremented /\ level = "major" /\ preid = ""
  /\ VCore(baseVersion) = <<9, 9, 9>>
  /\ VCore(newVersion) = <<10, 0, 0>>

\* C8 as claimed: a numeric level without preid carries the prerelease/build
\* suffix of the base version over onto the new triple.
C8_SuffixCarriedOver ==
  (Incremented /\ level \in NumericLevels /\ preid = "")
    => newVersion = VPrefix(baseVersion)
                      \o TripleStr(Bumped(VCore(baseVersion), level))
                      \o VSuffix(baseVersion)

\* C9: a numeric level with a preid gives the bumped triple followed by
\* exactly -{preid}.0, with nothing of the old suffix (a leading "v" of the
\* input stays in front).
C9_PreidFreshSuffix ==
  (Incremented /\ level \in NumericLevels /\ preid # "")
    => newVersion = VPrefix(baseVersion)
                      \o TripleStr(Bumped(VCore(baseVersion), level))
                      \o "-" \o preid \o ".0"

\* C9 witness: a base with an old suffix was bumped with a preid.
C9_Witness ==
  /\ Incremented /\ level = "minor" /\ preid = "alpha"
  /\ baseVersion = "1.2.3-beta.1"
  /\ newVersion = "1.3.0-alpha.0"

\* Whether the prerelease pre is exactly {p}.{integer}.
IsCounterOf(pre, p) ==
  /\ StartsWith(pre, p \o ".")
  /\ Len(pre) > Len(p) + 1
  /\ AllIn(From(pre, Len(p) + 2), Digits)

\* What C10 says level=prerelease gives for base b and preid p.
PrereleaseExpected(b, p) ==
  LET t   == VCore(b)
      pre == VPrerelease(b)
  IN IF pre = ""
     THEN TripleStr(<<t[1], t[2], t[3] + 1>>) \o "-" \o p \o ".0"
     ELSE IF IsCounterOf(pre, p)
     THEN TripleStr(t) \o "-" \o p \o "."
            \o NumStr(Number(From(pre, Len(p) + 2)) + 1)
     ELSE TripleStr(t) \o "-" \o p \o ".0"

\* C10: level=prerelease with preid p gives M.m.(P+1)-p.0 for a base without
\* prerelease, M.m.P-p.(N+1) for a base whose prerelease is p.N, and
\* M.m.P-p.0 in every other case; it fails for no base M.m.P[-suffix].
C10_PrereleaseLevel ==
  /\ (Incremented /\ level = "prerelease")
       => newVersion = PrereleaseExpected(baseVersion, preid)
  /\ (pc = "thrown" /\ level = "prerelease" /\ preid # "")
       => ~MatchesSemver(baseVersion)

\* C10 witness: the counter of the same preid went from 9 to 10.
C10_Witness ==
  /\ Incremented /\ level = "prerelease" /\ preid = "alpha"
  /\ VPrerelease(baseVersion) = "alpha.9"
  /\ VPrerelease(newVersion) = "alpha.10"

\* C11 as claimed: whatever incrementSemver returns for a valid semver, a
\* level and a preid the tool takes is again accepted by isSemver.
C11_IncrementKeepsValidity ==
  Incremented => isSemver(newVersion)

\* ------------------------------------------------------------------------
\* The resolution of the base version
\* ------------------------------------------------------------------------

WhiteSpace == {" ", "\t", "\r", "\n"}

\* String.prototype.trim
RECURSIVE trim(_)
trim(s) ==
  IF Len(s) > 0 /\ Ch(s, 1) \in WhiteSpace THEN trim(From(s, 2))
  ELSE IF Len(s) > 0 /\ Ch(s, Len(s)) \in WhiteSpace THEN trim(Upto(s, Len(s) - 1))
  ELSE s

\* stdout.split(reNewline).map(v => v.trim()).filter(Boolean)
RECURSIVE TagList(_)
TagList(lines) ==
  IF lines = <<>> THEN <<>>
  ELSE (IF trim(Head(lines)) = "" THEN <<>> ELSE <<trim(Head(lines))>>)
       \o TagList(Tail(lines))

\* The loop over the tags: the first that isSemver accepts, without its "v".
RECURSIVE FirstSemverTagLast(_)
FirstSemverTagLast(tags) ==
  IF tags = <<>> THEN ""
  ELSE IF isSemver(tags[Len(tags)]) THEN StripV(tags[Len(tags)])
  ELSE FirstSemverTagLast(SubSeq(tags, 1, Len(tags) - 1))

RECURSIVE FirstSemverTag(_)
FirstSemverTag(tags) ==
  IF tags = <<>> THEN ""
  ELSE IF isSemver(Head(tags)) THEN StripV(Head(tags))
  ELSE FirstSemverTag(Tail(tags))

\* readVersionFromPackageJson that takes any version there is.
readVersionFromPackageJsonUnchecked(m) ==
  IF m.found /\ m.parses /\ m.version # "" THEN StripV(m.version) ELSE ""

\* readVersionFromPackageJson(projectRoot); null is "".
readVersionFromPackageJson(m) ==
  IF m.found /\ m.parses /\ m.version # "" /\ isSemver(m.version)
  THEN StripV(m.version) ELSE ""

\* readVersionFromPyprojectToml(projectRoot); null is "".
\* isSemver of a value that is no string throws a TypeError (it has no
\* replace method), which the catch turns into null.
readVersionFromPyprojectToml(d) ==
  IF ~(d.found /\ d.parses) THEN ""
  ELSE IF d.project # "" /\ ~d.projectIsString THEN ""
  ELSE IF d.project # "" /\ isSemver(d.project) THEN StripV(d.project)
  ELSE IF d.poetry # "" /\ isSemver(d.poetry) THEN StripV(d.poetry)
  ELSE ""

\* a || b for strings.
OrElse(a, b) == IF a # "" THEN a ELSE b

\* The descriptor asked before the manifest.
FileVersionDescriptorFirst(m, d) ==
  OrElse(readVersionFromPyprojectToml(d), readVersionFromPackageJson(m))

\* readVersionFromPackageJson(projectRoot) || readVersionFromPyprojectToml(projectRoot) || ""
FileVersion(m, d) ==
  OrElse(readVersionFromPackageJson(m), readVersionFromPyprojectToml(d))

\* The fallback to 0.0.0 in gitless mode too.
FileOrDefaultAlways(a, version) ==
  IF version # "" THEN Ok(version) ELSE Ok("0.0.0")

\* The version of the files; without one, the error of gitless mode, or 0.0.0.
FileOrDefault(a, version) ==
  IF version # "" THEN Ok(version)
  ELSE IF a.gitless THEN Throw("--gitless requires --base")
  ELSE Ok("0.0.0")

\* if (!baseVersion) { ... }: the tag, or else the files.
TagOrFiles(a, tag, m, d) ==
  IF tag # "" THEN Ok(tag) ELSE FileOrDefault(a, FileVersion(m, d))

\* main, "obtain old version": the base version before its "v" is chopped
\* off, or the error of gitless mode.
ObtainOldVersion(a, out, m, d) ==
  IF a.base # "" THEN Ok(a.base)
  ELSE TagOrFiles(a, IF a.gitless THEN "" ELSE FirstSemverTag(TagList(Lines(out))),
                  m, d)

\* if (baseVersion.startsWith("v")) baseVersion = baseVersion.substring(1)
ChopV(v) == IF StartsWith(v, "v") THEN From(v, 2) ELSE v

\* A variant of uniq that keeps every element.
uniqKeepsAll(arr) == arr

\* uniq(files)
RECURSIVE uniq(_)
uniq(arr) ==
  IF arr = <<>> THEN <<>>
  ELSE LET init == uniq(SubSeq(arr, 1, Len(arr) - 1))
           last == arr[Len(arr)]
       IN IF \E i \in 1..Len(init) : init[i] = last THEN init
          ELSE Append(init, last)

\* relative(pwd, file) for a path given relative to pwd: the path without
\* its leading "./" segments.
RECURSIVE relative(_)
relative(file) ==
  IF StartsWith(file, "./") THEN relative(From(file, 3)) ELSE file

\* main: files, after uniq and after the conversion to relative paths.
Files ==
  LET Rel(arr) == [i \in 1..Len(arr) |-> relative(arr[i])]
  IN  Rel(uniq(args.files))

\* (new Date()).toISOString().substring(0, 10)
Today == "2026-11-02"

\* ------------------------------------------------------------------------
\* main, one run of the tool
\* ------------------------------------------------------------------------

\* let date = ""; if (args.date) date = today
date == IF args.date THEN Today ELSE ""

\* The replacements of the run, tokens expanded with the new version.
replacements == Replacements(args.replace, newVersion)

\* The variables a run only reads.
inputVars == <<level, preid, args, tagsOut, manifest, descriptor, fs0, steps>>

\* A variant of end that always exits with 0.
EndAlwaysZero(at, msg) ==
  /\ pc' = "exited"
  /\ exitCode' = 0
  /\ endedIn' = at
  /\ errMsg' = msg

\* end(err) and exit(err ? 1 : 0) at position `at`; no error is "".
End(at, msg) ==
  /\ pc' = "exited"
  /\ exitCode' = IF msg # "" THEN 1 ELSE 0
  /\ endedIn' = at
  /\ errMsg' = msg

\* The level is no command: the usage is printed, end().
ShowUsage ==
  /\ pc = "start"
  /\ level \notin Levels
  /\ End("usage", "")
  /\ UNCHANGED <<inputVars, fs, baseVersion, newVersion, todo, idx, reads, log>>

\* obtain old version, chop off "v".
ResolveBase ==
  LET Resolved(old) ==
        /\ old.ok
        /\ baseVersion' = ChopV(old.val)
  IN /\ pc = "start"
     /\ level \in Levels
     /\ Resolved(ObtainOldVersion(args, tagsOut, manifest, descriptor))
     /\ pc' = "validate"
     /\ UNCHANGED <<inputVars, fs, newVersion, todo, idx, reads, log, exitCode,
                    endedIn, errMsg>>

\* return end(new Error("--gitless requires --base ..."))
ResolveFails ==
  LET Failed(old) ==
        /\ ~old.ok
        /\ End("resolve", old.err)
  IN /\ pc = "start"
     /\ level \in Levels
     /\ Failed(ObtainOldVersion(args, tagsOut, manifest, descriptor))
     /\ UNCHANGED <<inputVars, fs, baseVersion, newVersion, todo, idx, reads, log>>

\* throw new Error(`Invalid base version: ${baseVersion}`)
InvalidBase ==
  /\ pc = "validate"
  /\ ~isSemver(baseVersion)
  /\ End("validate", "Invalid base version")
  /\ UNCHANGED <<inputVars, fs, baseVersion, newVersion, todo, idx, reads, log>>

\* return end(new Error("prerelease requires --preid option"))
PrereleaseWithoutPreid ==
  /\ pc = "validate"
  /\ isSemver(baseVersion)
  /\ level = "prerelease" /\ preid = ""
  /\ End("validate", "prerelease requires --preid option")
  /\ UNCHANGED <<inputVars, fs, baseVersion, newVersion, todo, idx, reads, log>>

\* Whether the run gets to incrementSemver.
Validated ==
  /\ pc = "validate"
  /\ isSemver(baseVersion)
  /\ ~(level = "prerelease" /\ preid = "")

\* incrementSemver throws.
IncrementThrows ==
  LET Thrown(new) ==
        /\ ~new.ok
        /\ End("increment", new.err)
  IN /\ Validated
     /\ Thrown(incrementSemver(baseVersion, level, preid))
     /\ UNCHANGED <<inputVars, fs, baseVersion, newVersion, todo, idx, reads, log>>

\* end(new Error(`Invalid replace string: ${replaceStr}`))
InvalidReplaceString ==
  LET Set(new) ==
        /\ new.ok
        /\ newVersion' = new.val
  IN /\ Validated
     /\ ~ReplaceStringsValid(args.replace)
     /\ Set(incrementSemver(baseVersion, level, preid))
     /\ End("replace", "Invalid replace string")
     /\ UNCHANGED <<inputVars, fs, baseVersion, todo, idx, reads, log>>

\* set new version, build the replacements.
Increment ==
  LET Set(new) ==
        /\ new.ok
        /\ newVersion' = new.val
  IN /\ Validated
     /\ ReplaceStringsValid(args.replace)
     /\ Set(incrementSemver(baseVersion, level, preid))
     /\ pc' = IF Files = <<>> THEN "command" ELSE "stat"
     /\ idx' = 1
     /\ UNCHANGED <<inputVars, fs, baseVersion, todo, reads, log, exitCode,
                    endedIn, errMsg>>

\* The file of the running loop.
File == Files[idx]

\* StatFile that takes whatever path it is given.
StatFileUnchecked ==
  /\ pc = "stat"
  /\ IF idx < Len(Files) THEN idx' = idx + 1 /\ pc' = pc
                         ELSE idx' = 1 /\ pc' = "compute"
  /\ UNCHANGED <<inputVars, fs, baseVersion, newVersion, todo, reads, log,
                 exitCode, endedIn, errMsg>>

\* The loop "verify files exist": statSync(file) returns a file.
StatFile ==
  /\ pc = "stat"
  /\ Exists(fs, File) /\ fs[File].kind # "dir"
  /\ IF idx < Len(Files) THEN idx' = idx + 1 /\ pc' = pc
                         ELSE idx' = 1 /\ pc' = "compute"
  /\ UNCHANGED <<inputVars, fs, baseVersion, newVersion, todo, reads, log,
                 exitCode, endedIn, errMsg>>

\* statSync throws, or `${file} is not a file`.
StatFails ==
  /\ pc = "stat"
  /\ ~(Exists(fs, File) /\ fs[File].kind # "dir")
  /\ End("stat", IF Exists(fs, File) THEN "is not a file" ELSE "ENOENT")
  /\ UNCHANGED <<inputVars, fs, baseVersion, newVersion, todo, idx, reads, log>>

\* The loop "update files" where every change is written as soon as it is
\* computed.
ComputeAndWriteFile ==
  LET Push(change) ==
        /\ change.ok
        /\ todo' = Append(todo, <<File, change.val>>)
        /\ fs' = [fs EXCEPT ![File].data = change.val]
  IN /\ pc = "compute"
     /\ Push(getFileChanges(fs, File, baseVersion, newVersion, replacements, date))
     /\ reads' = reads \cup {File}
     /\ IF idx < Len(Files) THEN idx' = idx + 1 /\ pc' = pc
                            ELSE idx' = 1 /\ pc' = "command"
     /\ UNCHANGED <<inputVars, baseVersion, newVersion, log, exitCode, endedIn,
                    errMsg>>

\* The loop "update files": todo.push(getFileChanges(...)).
ComputeFile ==
  LET Push(change) ==
        /\ change.ok
        /\ todo' = Append(todo, <<File, change.val>>)
  IN /\ pc = "compute"
     /\ Push(getFileChanges(fs, File, baseVersion, newVersion, replacements, date))
     /\ reads' = reads \cup {File}
     /\ IF idx < Len(Files) THEN idx' = idx + 1 /\ pc' = pc
                            ELSE idx' = 1 /\ pc' = "write"
     /\ UNCHANGED <<inputVars, fs, baseVersion, newVersion, log, exitCode,
                    endedIn, errMsg>>

\* getFileChanges throws.
ComputeFails ==
  LET Thrown(change) ==
        /\ ~change.ok
        /\ End("compute", change.err)
  IN /\ pc = "compute"
     /\ Thrown(getFileChanges(fs, File, baseVersion, newVersion, replacements, date))
     /\ reads' = reads \cup {File}
     /\ UNCHANGED <<inputVars, fs, baseVersion, newVersion, todo, idx, log>>

\* A variant that leaves the files alone in a dry run.
WriteFileUnlessDry ==
  /\ pc = "write"
  /\ fs' = IF args.dry THEN fs
           ELSE [fs EXCEPT ![todo[idx][1]].data = todo[idx][2]]
  /\ IF idx < Len(todo) THEN idx' = idx + 1 /\ pc' = pc
                        ELSE idx' = 1 /\ pc' = "command"
  /\ UNCHANGED <<inputVars, baseVersion, newVersion, todo, reads, log,
                 exitCode, endedIn, errMsg>>

\* The loop over todo: write(file, newData).
WriteFile ==
  /\ pc = "write"
  /\ fs' = [fs EXCEPT ![todo[idx][1]].data = todo[idx][2]]
  /\ IF idx < Len(todo) THEN idx' = idx + 1 /\ pc' = pc
                        ELSE idx' = 1 /\ pc' = "command"
  /\ UNCHANGED <<inputVars, baseVersion, newVersion, todo, reads, log,
                 exitCode, endedIn, errMsg>>

\* A variant that puts every file back when a write fails.
WriteFailsRollsBack ==
  /\ pc = "write"
  /\ fs' = fs0
  /\ End("write", "write failed")
  /\ UNCHANGED <<inputVars, baseVersion, newVersion, todo, idx, reads, log>>

\* writeFileSync throws: the file is as it was, or it was truncated when the
\* write failed.
WriteFails ==
  /\ pc = "write"
  /\ \E left \in {fs[todo[idx][1]].data, ""} :
       fs' = [fs EXCEPT ![todo[idx][1]].data = left]
  /\ End("write", "write failed")
  /\ UNCHANGED <<inputVars, baseVersion, newVersion, todo, idx, reads, log>>

\* No --command.
SkipCommand ==
  /\ pc = "command"
  /\ ~args.command
  /\ pc' = "git"
  /\ UNCHANGED <<inputVars, fs, baseVersion, newVersion, todo, idx, reads, log,
                 exitCode, endedIn, errMsg>>

\* await spawnEnhanced(args.command, [], {shell: true})
RunCommand ==
  /\ pc = "command"
  /\ args.command
  /\ log' = Append(log, "command")
  /\ pc' = "git"
  /\ UNCHANGED <<inputVars, fs, baseVersion, newVersion, todo, idx, reads,
                 exitCode, endedIn, errMsg>>

\* A variant in which main goes on after the command has failed.
CommandFailsGoesOn ==
  /\ pc = "command"
  /\ args.command
  /\ log' = Append(log, "command")
  /\ errMsg' = "SubprocessError"
  /\ pc' = "git"
  /\ UNCHANGED <<inputVars, fs, baseVersion, newVersion, todo, idx, reads,
                 exitCode, endedIn>>

\* The command exits with an error: spawnEnhanced rejects.
CommandFails ==
  /\ pc = "command"
  /\ args.command
  /\ log' = Append(log, "command")
  /\ End("command", "SubprocessError")
  /\ UNCHANGED <<inputVars, fs, baseVersion, newVersion, todo, idx, reads>>

\* if (args.gitless) return
GitlessReturn ==
  /\ pc = "git"
  /\ args.gitless
  /\ End("gitless", "")
  /\ UNCHANGED <<inputVars, fs, baseVersion, newVersion, todo, idx, reads, log>>

\* if (args.dry) return console.info("Would create new tag and commit")
DryReturn ==
  /\ pc = "git"
  /\ ~args.gitless /\ args.dry
  /\ End("dry", "")
  /\ UNCHANGED <<inputVars, fs, baseVersion, newVersion, todo, idx, reads, log>>

\* A variant that commits whatever the options are.
CommitAlways ==
  /\ pc = "git"
  /\ log' = Append(log, "commit")
  /\ pc' = "tag"
  /\ UNCHANGED <<inputVars, fs, baseVersion, newVersion, todo, idx, reads,
                 exitCode, endedIn, errMsg>>

\* create commit
Commit ==
  /\ pc = "git"
  /\ ~args.gitless /\ ~args.dry
  /\ log' = Append(log, "commit")
  /\ pc' = "tag"
  /\ UNCHANGED <<inputVars, fs, baseVersion, newVersion, todo, idx, reads,
                 exitCode, endedIn, errMsg>>

\* git add or git commit fails.
CommitFails ==
  /\ pc = "git"
  /\ ~args.gitless /\ ~args.dry
  /\ log' = Append(log, "commit")
  /\ End("commit", "SubprocessError")
  /\ UNCHANGED <<inputVars, fs, baseVersion, newVersion, todo, idx, reads>>

\* create tag; without --release main returns and end() exits.
Tag ==
  /\ pc = "tag"
  /\ log' = Append(log, "tag")
  /\ IF args.release
     THEN pc' = "release" /\ UNCHANGED <<exitCode, endedIn, errMsg>>
     ELSE End("done", "")
  /\ UNCHANGED <<inputVars, fs, baseVersion, newVersion, todo, idx, reads>>

\* git tag fails.
TagFails ==
  /\ pc = "tag"
  /\ log' = Append(log, "tag")
  /\ End("tag", "SubprocessError")
  /\ UNCHANGED <<inputVars, fs, baseVersion, newVersion, todo, idx, reads>>

\* create release: the release is created, main returns and end() exits.
Release ==
  /\ pc = "release"
  /\ log' = Append(log, "release")
  /\ End("done", "")
  /\ UNCHANGED <<inputVars, fs, baseVersion, newVersion, todo, idx, reads>>

\* getRepoInfo() returns null: a warning, and main returns.
ReleaseSkipped ==
  /\ pc = "release"
  /\ End("norepo", "")
  /\ UNCHANGED <<inputVars, fs, baseVersion, newVersion, todo, idx, reads, log>>

\* No token is found, or the response of the API is not ok: main throws.
ReleaseFails ==
  /\ pc = "release"
  /\ \E asked \in BOOLEAN :
       log' = IF asked THEN Append(log, "release") ELSE log
  /\ End("release", "release failed")
  /\ UNCHANGED <<inputVars, fs, baseVersion, newVersion, todo, idx, reads>>

\* The steps of a run up to the new version.
NextResolve ==
  \/ ShowUsage
  \/ ResolveBase
  \/ ResolveFails
  \/ InvalidBase
  \/ PrereleaseWithoutPreid
  \/ IncrementThrows
  \/ InvalidReplaceString
  \/ Increment

Next ==
  \/ NextResolve
  \/ StatFile
  \/ StatFails
  \/ ComputeFile
  \/ ComputeFails
  \/ WriteFile
  \/ WriteFails
  \/ SkipCommand
  \/ RunCommand
  \/ CommandFails
  \/ GitlessReturn
  \/ DryReturn
  \/ Commit
  \/ CommitFails
  \/ Tag
  \/ TagFails
  \/ Release
  \/ ReleaseSkipped
  \/ ReleaseFails
\* ------------------------------------------------------------------------
\* The runs of the model
\* ------------------------------------------------------------------------

LockText ==
  Stringify([version |-> "1.0.0", packages |-> TRUE, rootVersion |-> "1.0.0",
             depVersion |-> "1.0.0"]) \o "\n"

AFile(data) == [kind |-> "file", data |-> data]

\* The working directory of the runs.
Disk ==
  [f \in {"testfile", "notes", "package.json", "package-lock.json",
          "pyproject.toml", "uv.lock", "sub/uv.lock", "sub/package-lock.json",
          "dir", "locked"} |->
     CASE f = "testfile"          -> AFile("testfile v1.0.0 (1999-01-01) foo")
       [] f = "notes"             -> AFile("nothing to see")
       [] f = "package.json"      -> AFile("{\"name\": \"pkg\", \"version\": \"1.0.0\"}")
       [] f = "package-lock.json" -> AFile(LockText)
       [] f = "pyproject.toml"    ->
            AFile("[project]\nname = \"proj\"\nversion = \"1.0.0\"\n")
       [] f = "uv.lock"           ->
            AFile("[[package]]\nname = \"proj\"\nversion = \"1.0.0\"\n")
       [] f = "sub/uv.lock"       ->
            AFile("[[package]]\nname = \"proj\"\nversion = \"1.0.0\"\n")
       [] f = "sub/package-lock.json" -> AFile("{")
       [] f = "dir"               -> [kind |-> "dir", data |-> ""]
       [] f = "locked"            -> [kind |-> "unreadable", data |-> ""]]

\* The file arguments of the runs.
FileLists ==
  { <<>>, <<"testfile">>, <<"testfile", "testfile">>,
    <<"testfile", "./testfile">>,
    <<"testfile", "package.json", "pyproject.toml">>,
    <<"testfile", "package.json">>, <<"testfile", "notes">>,
    <<"testfile", "missing">>, <<"testfile", "dir">>, <<"testfile", "locked">>,
    <<"missing", "testfile">>,
    <<"pyproject.toml", "uv.lock">>, <<"package-lock.json", "testfile">>,
    <<"testfile", "sub/uv.lock">>, <<"testfile", "sub/package-lock.json">> }

\* --base and the output of git tag of the runs.
BaseSources ==
  { <<"", "">>, <<"", "v1.0.0\n">>, <<"v1.0.0", "">>, <<"2.0.0", "">>,
    <<"bad", "">>, <<"vv1.0.0", "">> }

\* --date and --replace of the runs.
Passes ==
  { <<FALSE, <<>> >>, <<TRUE, <<>> >>, <<FALSE, <<"s#foo#_VER_#">> >>,
    <<FALSE, <<"s#foo">> >> }

\* The state of a starting run.
Started ==
  /\ pc = "start"
  /\ fs0 = fs
  /\ baseVersion = ""
  /\ newVersion = ""
  /\ todo = <<>>
  /\ idx = 0
  /\ reads = {}
  /\ log = <<>>
  /\ exitCode = -1
  /\ endedIn = ""
  /\ errMsg = ""
  /\ steps = 0

\* The package.json files at the project root of the runs.
RunManifests ==
  { NoManifest,
    [found |-> TRUE, parses |-> TRUE, version |-> "invalid"],
    [found |-> TRUE, parses |-> TRUE, version |-> "1.0.0"] }

\* The command lines of the runs: every file list with every pass and mode
\* from a tagged version, and every base source with every command.
Runs ==
  [level : {"patch"}, preid : {""}, source : {<<"", "v1.0.0\n">>},
   manifest : {NoManifest}, pass : Passes, gitless : BOOLEAN, dry : BOOLEAN,
   command : BOOLEAN, release : BOOLEAN, files : FileLists]
  \cup
  [level : {"patch", "prerelease", "bogus"}, preid : {"", "alpha"},
   source : BaseSources, manifest : RunManifests, pass : {<<FALSE, <<>> >>},
   gitless : BOOLEAN, dry : {FALSE}, command : BOOLEAN, release : {FALSE},
   files : {<<"testfile">>}]

Init ==
  /\ \E r \in Runs :
       /\ level = r.level
       /\ preid = r.preid
       /\ args = [base |-> r.source[1], gitless |-> r.gitless, dry |-> r.dry,
                  date |-> r.pass[1], command |-> r.command,
                  release |-> r.release, files |-> r.files,
                  replace |-> r.pass[2]]
       /\ tagsOut = r.source[2]
       /\ manifest = r.manifest
  /\ descriptor = NoDescriptor
  /\ fs = Disk
  /\ Started

Spec == Init /\ [][Next]_vars
\* ------------------------------------------------------------------------
\* The resolution of the base version over many project roots
\* ------------------------------------------------------------------------

\* --base and --replace of the resolving runs.
BaseArgs ==
  { <<"", <<>> >>, <<"2.0.0", <<>> >>, <<"v2.0.0", <<>> >>, <<"bad", <<>> >>,
    <<"vv1.0.0", <<>> >>, <<"2.0.0", <<"s#foo">> >> }

TagOutputs ==
  { "", "v1.0.0\n", "junk\nv1.1.0\r\n1.0.0\n", "junk\n  \nnot-a-version\n",
    "1.0.0-rc.1\nv0.9.0" }

Manifests ==
  { NoManifest,
    [found |-> TRUE, parses |-> FALSE, version |-> ""],
    [found |-> TRUE, parses |-> TRUE, version |-> ""],
    [found |-> TRUE, parses |-> TRUE, version |-> "invalid"],
    [found |-> TRUE, parses |-> TRUE, version |-> "3.0.0"],
    [found |-> TRUE, parses |-> TRUE, version |-> "v3.1.0"] }

Descriptors ==
  { NoDescriptor,
    [NoDescriptor EXCEPT !.found = TRUE],
    [NoDescriptor EXCEPT !.found = TRUE, !.parses = TRUE] }
  \cup { [found |-> TRUE, parses |-> TRUE, project |-> v[1],
          projectIsString |-> TRUE, poetry |-> v[2]] :
          v \in { <<"3.0.0", "">>, <<"4.0.0", "">>, <<"", "5.0.0">>,
                  <<"v4.0.0", "5.0.0">>, <<"invalid", "5.0.0">>,
                  <<"invalid", "junk">> } }
  \cup { [found |-> TRUE, parses |-> TRUE, project |-> "1",
          projectIsString |-> FALSE, poetry |-> "5.0.0"] }

\* The resolving runs: every project root with every base argument, and every
\* command with every base argument.
ResolveRuns ==
  [level : {"patch"}, preid : {""}, base : BaseArgs, gitless : BOOLEAN,
   tagsOut : TagOutputs, manifest : Manifests, descriptor : Descriptors]
  \cup
  [level : {"prerelease", "bogus"}, preid : {"", "alpha"}, base : BaseArgs,
   gitless : BOOLEAN, tagsOut : {"", "v1.0.0\n"}, manifest : {NoManifest},
   descriptor : {NoDescriptor}]

InitResolve ==
  /\ \E r \in ResolveRuns :
       /\ level = r.level
       /\ preid = r.preid
       /\ args = [base |-> r.base[1], gitless |-> r.gitless, dry |-> FALSE,
                  date |-> FALSE, command |-> FALSE, release |-> FALSE,
                  files |-> <<>>, replace |-> r.base[2]]
       /\ tagsOut = r.tagsOut
       /\ manifest = r.manifest
       /\ descriptor = r.descriptor
  /\ fs = Disk
  /\ Started

SpecResolve == InitResolve /\ [][NextResolve]_vars

\* ------------------------------------------------------------------------
\* getFileChanges over many files, versions, dates and rules
\* ------------------------------------------------------------------------

\* package.json files: the package's own version, the version range of its
\* dependency, and the "version" of a nested object in front of the
\* top-level one, "" for no such object.
PkgFiles ==
  [version : {"1.0.0", "2.0.0"}, dep : {"1.0.0", "^1.0.0"},
   config : {"", "1.0.0"}]

\* The text of a package.json.
PkgText(p) ==
  "{\n  \"name\": \"pkg\",\n"
  \o (IF p.config # ""
      THEN "  \"config\": {\n    \"version\": \"" \o p.config \o "\"\n  },\n"
      ELSE "")
  \o "  \"version\": \"" \o p.version \o "\",\n"
  \o "  \"dependencies\": {\n    \"dep\": \"" \o p.dep \o "\"\n  }\n}\n"

\* pyproject.toml files of a Poetry project: the project's own version and
\* its quote, and the version of the dependency flask, declared as
\* flask = "..." or in a table of its own as version = "...".
PyFiles ==
  [version : {"1.0.0", "2.0.0"}, quote : Quotes, dep : {"1.0.0", "2.0.0"},
   table : BOOLEAN]

\* The text of a pyproject.toml.
PyText(p) ==
  "[tool.poetry]\nname = \"proj\"\nversion = "
  \o p.quote \o p.version \o p.quote \o "\n\n"
  \o (IF p.table
      THEN "[tool.poetry.dependencies.flask]\nversion = \"" \o p.dep \o "\"\n"
      ELSE "[tool.poetry.dependencies]\nflask = \"" \o p.dep \o "\"\n")

\* uv.lock files of the project proj: the block of another package, in
\* front as uv sorts the blocks by name, and the block of the project.
UvFiles ==
  [other : {"foo", "myproj"}, otherVersion : {"1.0.0", "3.0.0"},
   version : {"1.0.0", "2.0.0"}]

\* The text of a uv.lock.
UvText(u) ==
  "version = 1\n\n[[package]]\nname = \"" \o u.other \o "\"\nversion = \""
  \o u.otherVersion \o "\"\n\n[[package]]\nname = \"proj\"\nversion = \""
  \o u.version \o "\"\nsource = { editable = \".\" }\n"

\* The texts that a file of the name may hold.
Contents(f) ==
  CASE f = "testfile" ->
         { "testfile v1.0.0 (1999-01-01) foo", "v1.0.0 and 1.0.0", "nothing",
           "1x0y0 11.0.01 (1.0.0)", "2.0.0-a+b 2.0.0-A+b 2.0.0-aab 2.0.0",
           "1.0.0 1999-01-01\n2000-12-31\n11999-01-01 1999-01-011" }
    [] f = "package.json" ->
         { "{\"name\": \"pkg\", \"version\": \"1.0.0\"}",
           "{\"version\": \"2.0.0\", \"date\": \"1999-01-01\", \"foo\": 1}" }
         \cup {PkgText(p) : p \in PkgFiles}
    [] f = "package-lock.json" ->
         { LockText,
           StringifyCompact([version |-> "2.0.0", packages |-> TRUE,
                             rootVersion |-> "2.0.0", depVersion |-> "1.0.0"]),
           Stringify([version |-> "", packages |-> FALSE, rootVersion |-> "",
                      depVersion |-> "1.0.0"]) \o "\n",
           "{" }
    [] f = "pyproject.toml" ->
         { "[project]\nname = \"proj\"\nversion = \"1.0.0\"\n",
           "[project]\nname = \"proj\"\nversion = '2.0.0' # 1999-01-01\n" }
         \cup {PyText(p) : p \in PyFiles}
    [] f = "uv.lock" ->
         { "[[package]]\nname = \"proj\"\nversion = \"1.0.0\"\n",
           "[[package]]\nname = \"foo\"\nversion = \"1.0.0\"\n\n[[package]]\nname = \"proj\"\nversion = \"2.0.0\"\n",
           "[[package]]\nname = \"other\"\nversion = \"1.0.0\"\n" }
         \cup {UvText(u) : u \in UvFiles}
    [] OTHER -> { "[[package]]\nname = \"proj\"\nversion = \"1.0.0\"\n" }

MutatedFiles ==
  {"testfile", "package.json", "package-lock.json", "pyproject.toml", "uv.lock",
   "sub/uv.lock"}

\* baseVersion and newVersion of the calls.
VersionPairs ==
  { <<"1.0.0", "1.0.1">>, <<"1.0.0", "1.0.0">>, <<"2.0.0", "2.0.0">>,
    <<"2.0.0", "2.0.1-alpha.0">>, <<"2.0.0-a+b", "2.0.1">> }

RuleLists ==
  { <<>>, <<"s#foo#_VER_ _MAJOR_ _MINOR_ _PATCH_#">>, <<"s#foo#foo#g">>,
    <<"s#foo#bar#", "s#bar#baz#">>, <<"s#bar#baz#", "s#foo#bar#">>,
    <<"s#2026-11-02#1999-01-01#">> }

InitMutate ==
  /\ level = "patch"
  /\ preid = ""
  /\ \E f \in MutatedFiles, d \in BOOLEAN, r \in RuleLists :
       /\ args = [base |-> "", gitless |-> TRUE, dry |-> FALSE, date |-> d,
                  command |-> FALSE, release |-> FALSE, files |-> <<f>>,
                  replace |-> r]
       /\ \E c \in Contents(f) : fs = [Disk EXCEPT ![f] = AFile(c)]
  /\ \E v \in VersionPairs : baseVersion = v[1] /\ newVersion = v[2]
  /\ tagsOut = ""
  /\ manifest = NoManifest
  /\ descriptor = NoDescriptor
  /\ fs0 = fs
  /\ pc = "compute"
  /\ idx = 1
  /\ todo = <<>>
  /\ reads = {}
  /\ log = <<>>
  /\ exitCode = -1
  /\ endedIn = ""
  /\ errMsg = ""
  /\ steps = 0

NextMutate ==
  \/ ComputeFile
  \/ ComputeFails

SpecMutate == InitMutate /\ [][NextMutate]_vars
\* ------------------------------------------------------------------------
\* Claims about the resolution of the base version (SpecResolve)
\* ------------------------------------------------------------------------

\* The run has a base version: "obtain old version" has returned one.
Resolved == pc # "start" /\ endedIn \notin {"usage", "resolve"}

\* The tags of the repository, newest first.
Tags == TagList(Lines(tagsOut))

\* Whether a tag can serve as the base version.
HasUsableTag == ~args.gitless /\ \E i \in 1..Len(Tags) : isSemver(Tags[i])

\* The version that the manifest carries, "" when it carries no valid one.
ManifestSource ==
  IF manifest.found /\ manifest.parses /\ manifest.version # ""
     /\ isSemver(manifest.version)
  THEN StripV(manifest.version) ELSE ""

\* The version that the descriptor yields, "" when it carries no valid one
\* or the lookup is given up.
DescriptorSource ==
  IF ~(descriptor.found /\ descriptor.parses) THEN ""
  ELSE IF descriptor.project # "" /\ ~descriptor.projectIsString THEN ""
  ELSE IF descriptor.project # "" /\ isSemver(descriptor.project)
       THEN StripV(descriptor.project)
  ELSE IF descriptor.poetry # "" /\ isSemver(descriptor.poetry)
       THEN StripV(descriptor.poetry)
  ELSE ""

C4_SkipOnInvalid ==
  /\ (pc = "exited" /\ endedIn = "resolve")
       => args.base = "" /\ ManifestSource = "" /\ DescriptorSource = ""
  /\ (pc = "exited" /\ errMsg = "Invalid base version") => args.base # ""
  /\ (Resolved /\ args.base = "" /\ ~HasUsableTag /\ ManifestSource = ""
        /\ DescriptorSource # "")
       => baseVersion = DescriptorSource
  /\ (Resolved /\ args.base = "" /\ args.gitless
        /\ manifest.parses /\ manifest.version = "invalid"
        /\ descriptor.parses /\ descriptor.project = "3.0.0")
       => baseVersion = "3.0.0"

\* C4 witness: the scenario of the claim has resolved to 3.0.0.
C4_Witness ==
  /\ Resolved
  /\ args.base = "" /\ args.gitless
  /\ manifest.parses /\ manifest.version = "invalid"
  /\ descriptor.parses /\ descriptor.project = "3.0.0"
  /\ baseVersion = "3.0.0"

\* C5: without explicit base and usable tag, a manifest and a descriptor that
\* carry valid but different versions resolve to the manifest's version.
C5_ManifestOutranksDescriptor ==
  (Resolved /\ args.base = "" /\ ~HasUsableTag
     /\ ManifestSource # "" /\ DescriptorSource # ""
     /\ ManifestSource # DescriptorSource)
    => baseVersion = ManifestSource

\* C5 witness: manifest 3.0.0 and descriptor 4.0.0, with tags of which none
\* is valid, have resolved to 3.0.0.
C5_Witness ==
  /\ Resolved
  /\ args.base = "" /\ ~args.gitless /\ Len(Tags) > 0 /\ ~HasUsableTag
  /\ ManifestSource = "3.0.0" /\ DescriptorSource = "4.0.0"
  /\ baseVersion = "3.0.0"
\* ------------------------------------------------------------------------
\* Claims about the run (Spec)
\* ------------------------------------------------------------------------

\* C1: the new content of every target is computed before the first write:
\* a file on disk differs from the start only when all are computed, and a
\* run that fails while computing leaves every file as it was.
C1_TwoPhase ==
  /\ pc \in {"start", "validate", "stat", "compute"} => fs = fs0
  /\ fs # fs0 => Len(todo) = Len(Files)
  /\ pc = "write" => Len(todo) = Len(Files)
  /\ (pc = "exited" /\ endedIn = "compute") => fs = fs0 /\ exitCode = 1

\* C1 witness: the second target failed with the no-change error after the
\* first was computed, and nothing is written.
C1_Witness ==
  /\ pc = "exited" /\ endedIn = "compute"
  /\ errMsg = "No replacement made"
  /\ Len(todo) = 1 /\ Len(Files) = 2
  /\ todo[1][2] # fs0[todo[1][1]].data
  /\ fs = fs0

\* The run cannot go on: gitless mode without base and without a version in
\* the files, a base version that is no semver, or prerelease without preid.
Fatal ==
  /\ level \in Levels
  /\ \/ args.gitless /\ args.base = "" /\ ManifestSource = "" /\ DescriptorSource = ""
     \/ Resolved /\ ~isSemver(baseVersion)
     \/ level = "prerelease" /\ preid = ""

\* C6: a run that cannot go on exits with an error and code 1 before any
\* target is read or written and before any command, commit or tag.
C6_FatalBeforeMutation ==
  Fatal =>
    /\ pc \in {"start", "validate", "exited"}
    /\ pc = "exited" => exitCode = 1 /\ errMsg # "" /\ endedIn \in {"resolve", "validate"}
    /\ fs = fs0
    /\ reads = {}
    /\ todo = <<>>
    /\ log = <<>>

\* C6 witness: a gitless run without any base version has exited with code 1
\* with its target and its command untouched.
C6_Witness ==
  /\ pc = "exited" /\ endedIn = "resolve" /\ exitCode = 1
  /\ args.gitless /\ args.command /\ Files # <<>>
  /\ fs = fs0 /\ reads = {} /\ log = <<>>

\* ------------------------------------------------------------------------
\* Claims about getFileChanges (SpecMutate)
\* ------------------------------------------------------------------------

\* getFileChanges has returned the new data of the file.
Returned == pc = "write" /\ Len(todo) = 1

\* Whether the file is one of the lockfiles.
IsLockfile(file) == basename(file) \in {"package-lock.json", "uv.lock"}

\* C2 as claimed: a call with baseVersion equal to newVersion never returns,
\* and no call returns the old data.
C2_NoChangeGuard ==
  Returned =>
    /\ baseVersion # newVersion
    /\ todo[1][2] # fs0[todo[1][1]].data

\* C2 amended: no call returns the old data; a call with baseVersion equal to
\* newVersion returns only when a date stamp or a rule is given or the file
\* is a lockfile, and a generic file that holds the base version fails with
\* the no-change error only when baseVersion equals newVersion.
C2_ByteIdenticalGuard ==
  /\ Returned => todo[1][2] # fs0[todo[1][1]].data
  /\ (Returned /\ baseVersion = newVersion)
       => args.date \/ args.replace # <<>> \/ IsLockfile(Files[1])
  /\ (pc = "exited" /\ errMsg = "No replacement made"
        /\ Files[1] = "testfile" /\ Contains(fs0["testfile"].data, baseVersion))
       => baseVersion = newVersion

\* C2 witness: with baseVersion equal to newVersion, no date stamp and no
\* rule, the call for a generic file has failed with the no-change error.
C2_Witness ==
  /\ pc = "exited" /\ endedIn = "compute"
  /\ errMsg = "No replacement made"
  /\ baseVersion = newVersion
  /\ ~args.date /\ args.replace = <<>>
  /\ Files[1] = "testfile"
  /\ Contains(fs0["testfile"].data, baseVersion)

\* ------------------------------------------------------------------------
\* Claims about the version substitution of each file format (SpecMutate)
\* ------------------------------------------------------------------------

\* getFileChanges has returned for a file of the name, in a call without
\* date stamp and without rules: the new data is that of the version
\* substitution.
Substituted(name) ==
  /\ Returned /\ basename(Files[1]) = name
  /\ ~args.date /\ args.replace = <<>>

\* The data of the file before the call, and the data returned.
OldData == fs0[Files[1]].data

NewData == todo[1][2]

\* What C12 says of the lockfile old and the returned text out.
OnlyRootVersions(old, out) ==
  /\ out.version = (IF old.version # "" THEN newVersion ELSE "")
  /\ out.packages = old.packages
  /\ out.rootVersion =
       (IF old.packages /\ old.rootVersion # "" THEN newVersion ELSE "")
  /\ out.depVersion = old.depVersion
  /\ NewData = Stringify(out) \o "\n"

\* C12: the new data of a package-lock.json is the lockfile re-serialized
\* with a final newline, in which the top-level version and the version of
\* packages[""], where present, are the new version and every other value,
\* the version of the dependency included, is as it was.
C12_LockfileSafety ==
  Substituted("package-lock.json") =>
    /\ JsonParse(NewData).ok
    /\ OnlyRootVersions(JsonParse(OldData).val, JsonParse(NewData).val)

\* C12 witness: the dependency has the base version and keeps it, while both
\* root versions are the new version.
C12_Witness ==
  /\ Substituted("package-lock.json")
  /\ baseVersion = "1.0.0" /\ newVersion = "1.0.1"
  /\ JsonParse(OldData).val.depVersion = "1.0.0"
  /\ JsonParse(NewData).val =
       [version |-> "1.0.1", packages |-> TRUE, rootVersion |-> "1.0.1",
        depVersion |-> "1.0.0"]

\* C13 as claimed: the new data of a package.json is the old data with the
\* value of the top-level "version" field replaced and nothing else, whatever
\* the top-level version is; neither the range of a dependency nor the
\* "version" of a nested object changes.
C13_OnlyTopLevelVersion ==
  \A p \in PkgFiles :
    (Substituted("package.json") /\ OldData = PkgText(p))
      => \E v \in {baseVersion, newVersion} :
           NewData = PkgText([p EXCEPT !.version = v])

\* C14 as claimed: the new data of a pyproject.toml is the old data with the
\* project's own version replaced by the new version, and the version of the
\* dependency, equal to the base version or not, is as it was.
C14_OnlyProjectVersion ==
  \A p \in PyFiles :
    (Substituted("pyproject.toml") /\ OldData = PyText(p))
      => NewData = PyText([p EXCEPT !.version = newVersion])

\* C15 as claimed: the new data of a uv.lock is the old data with the version
\* of the block whose name is the project name replaced by the new version,
\* and the version of the other block is as it was.
C15_OnlyProjectBlock ==
  \A u \in UvFiles :
    (Substituted("uv.lock") /\ OldData = UvText(u))
      => NewData = UvText([u EXCEPT !.version = newVersion])

\* C16: the new data of a file of no special format is the old data with
\* every occurrence of the base version, character by character, replaced by
\* the new version, also inside a larger token, and with nothing else
\* changed.
C16_GenericSubstitution ==
  Substituted("testfile")
    => NewData = ReplaceAll(OldData, baseVersion, newVersion)

\* C16 witness: 1x0y0 stays, as the dots of the base version stand for
\* themselves, and the two occurrences of 1.0.0, one inside 11.0.01, are
\* replaced.
C16_Witness ==
  /\ Substituted("testfile")
  /\ baseVersion = "1.0.0" /\ newVersion = "1.0.1"
  /\ OldData = "1x0y0 11.0.01 (1.0.0)"
  /\ NewData = "1x0y0 11.0.11 (1.0.1)"

\* ------------------------------------------------------------------------
\* Claims about the passes behind the version substitution (SpecMutate)
\* ------------------------------------------------------------------------

\* getFileChanges has returned in a call with a date stamp and no rules.
Stamped == Returned /\ args.date /\ args.replace = <<>>

\* The data the version substitution of the call has given.
VersionData ==
  VersionChange(fs0, Files[1], OldData, baseVersion, newVersion).val

\* Whether a date YYYY-MM-DD is at position k of s with no digit in front of
\* it and none behind it.
BoundedDateAt(s, k) ==
  DateAt(s, k) /\ Ch(s, k - 1) \notin Digits /\ Ch(s, k + 10) \notin Digits

\* First position in lo..hi of such a date, 0 for none.
RECURSIVE NextBoundedDate(_, _, _)
NextBoundedDate(s, lo, hi) ==
  LET Right(left, mid) ==
        IF left # 0 THEN left ELSE NextBoundedDate(s, mid + 1, hi)
      Halves(mid) == Right(NextBoundedDate(s, lo, mid), mid)
  IN IF lo > hi THEN 0
     ELSE IF lo = hi THEN (IF BoundedDateAt(s, lo) THEN lo ELSE 0)
     ELSE Halves((lo + hi) \div 2)

\* s with every such date replaced by the date stamp.
RECURSIVE StampAll(_, _)
StampAll(s, stamp) ==
  LET Put(k) ==
        IF k = 0 THEN s
        ELSE Upto(s, k - 1) \o stamp \o StampAll(From(s, k + 10), stamp)
  IN Put(NextBoundedDate(s, 1, Len(s)))

\* C17 as claimed: with a date stamp, every YYYY-MM-DD of the data that has
\* a non-digit or the start in front of it and a non-digit or the end behind
\* it is replaced by the date stamp, and nothing else changes.
C17_EveryDateStamped ==
  Stamped => NewData = StampAll(VersionData, date)

\* The data behind the date pass of the call.
DateData == IF args.date THEN ReplaceDates(VersionData, Today) ELSE VersionData

\* data under the i-th rule of the call, data itself when the call has no
\* such rule.
UnderRule(data, i) ==
  IF i > Len(replacements) THEN data
  ELSE IF Contains(replacements[i].flags, "g")
       THEN ReplaceAll(data, replacements[i].re, replacements[i].replacement)
  ELSE ReplaceFirst(data, replacements[i].re, replacements[i].replacement)

\* The data behind the last pass: the version substitution, then the date
\* pass, then the first rule, then the second.
LastData == UnderRule(UnderRule(DateData, 1), 2)

\* C18: the data returned is that of the version substitution, then the
\* date pass, then the rules in the order given, each on the output of the
\* one before; the call returns when this data differs from the old data
\* and fails with the no-change error when it equals the old data.
C18_PassOrder ==
  /\ Returned => NewData = LastData /\ LastData # OldData
  /\ (pc = "exited" /\ errMsg = "No replacement made") => LastData = OldData

\* C18 witness: the second rule has worked on the output of the first, and
\* both behind the version substitution and the date pass.
C18_Witness ==
  /\ Returned /\ args.date
  /\ args.replace = <<"s#foo#bar#", "s#bar#baz#">>
  /\ OldData = "testfile v1.0.0 (1999-01-01) foo"
  /\ NewData = "testfile v1.0.1 (2026-11-02) baz"

\* str with the four tokens replaced by v and by the major, minor and patch
\* components of v.
TokensExpanded(str, v) ==
  ReplaceAll(ReplaceAll(ReplaceAll(ReplaceAll(str,
    "_VER_", v), "_MAJOR_", NumStr(VCore(v)[1])), "_MINOR_", NumStr(VCore(v)[2])),
    "_PATCH_", NumStr(VCore(v)[3]))

\* C19 as claimed: the replacement of every rule of the call is the one
\* given with _VER_, _MAJOR_, _MINOR_ and _PATCH_ replaced by the new version
\* and its major, minor and patch components, also for a new version with a
\* prerelease.
C19_TokenExpansion ==
  Returned =>
    \A i \in 1..Len(args.replace) :
      replacements[i].replacement =
        TokensExpanded(ParseReplaceString(args.replace[i]).replacement, newVersion)

\* ------------------------------------------------------------------------
\* Claims about the targets of a run (Spec)
\* ------------------------------------------------------------------------

\* Whether the target is there and is a file, or a link to one.
IsRegular(file) == Exists(fs0, file) /\ fs0[file].kind # "dir"

\* Some target of the run, at whatever position, is missing or no file.
BadTarget == \E i \in 1..Len(Files) : ~IsRegular(Files[i])

\* C20: a run reads, computes and writes only when every target is there
\* and is a file; with a target that is missing or no file, at any position
\* of the list, the run gets no further than the verification of the
\* targets, where it ends with an error and exit code 1 unless it has ended
\* before, and no file has been read or changed.
C20_TargetsVerifiedFirst ==
  /\ (reads # {} \/ todo # <<>> \/ fs # fs0) => ~BadTarget
  /\ BadTarget => pc \in {"start", "validate", "stat", "exited"}
  /\ (BadTarget /\ pc = "exited"
        /\ endedIn \notin {"usage", "resolve", "validate", "increment", "replace"})
       => endedIn = "stat" /\ exitCode = 1 /\ errMsg # ""

\* C20 witness: the first target is a file and the second is a directory;
\* the run has ended in the verification with nothing read or written.
C20_Witness ==
  /\ pc = "exited" /\ endedIn = "stat" /\ exitCode = 1
  /\ Files = <<"testfile", "dir">>
  /\ fs = fs0 /\ reads = {} /\ todo = <<>>

\* ------------------------------------------------------------------------
\* Claims about the steps after the write phase (Spec)
\* ------------------------------------------------------------------------

\* Every target of the run has been written with its new content.
AllWritten ==
  /\ Len(todo) = Len(Files)
  /\ \A i \in 1..Len(todo) : fs[todo[i][1]].data = todo[i][2]

\* Whether q starts with p.
IsPrefix(p, q) == Len(p) <= Len(q) /\ SubSeq(q, 1, Len(p)) = p

\* The external steps a run can take, in the order of main.
StepOrder ==
  IF args.command THEN <<"command", "commit", "tag", "release">>
                  ELSE <<"commit", "tag", "release">>

\* Whether the step has been started.
Ran(step) == \E i \in 1..Len(log) : log[i] = step

\* C21: the command, the commit and the tag start only when every write of
\* the run is done; they run one after the other in the order command,
\* commit, tag; a step that fails ends the run with a non-zero exit code and
\* no later step is started.
C21_ExternalStepOrder ==
  /\ log # <<>> => AllWritten /\ pc \notin {"stat", "compute", "write"}
  /\ IsPrefix(log, StepOrder)
  /\ errMsg # "" => pc = "exited" /\ exitCode # 0
  /\ (pc = "exited" /\ endedIn = "command")
       => log = <<"command">> /\ exitCode # 0
  /\ (pc = "exited" /\ endedIn = "commit")
       => ~Ran("tag") /\ log[Len(log)] = "commit" /\ exitCode # 0
  /\ (pc = "exited" /\ endedIn = "tag")
       => log[Len(log)] = "tag" /\ exitCode # 0

\* C21 witness: two targets are written, the command has run and the commit
\* fails; no tag is made and the exit code is 1.
C21_Witness ==
  /\ pc = "exited" /\ endedIn = "commit" /\ exitCode = 1
  /\ log = <<"command", "commit">>
  /\ Len(todo) = 2 /\ AllWritten /\ fs # fs0

\* C22: in a run with --gitless, and in a run with --dry, no commit and no
\* tag (and no release) is ever started.
C22_NoHistoryWhenGitlessOrDry ==
  (args.gitless \/ args.dry)
    => /\ ~Ran("commit") /\ ~Ran("tag") /\ ~Ran("release")
       /\ pc \notin {"tag", "release"}

\* C22 witness: a run with --gitless has written its target, has run the
\* command and has ended without a commit or a tag.
C22_Witness ==
  /\ args.gitless /\ ~args.dry
  /\ pc = "exited" /\ endedIn = "gitless"
  /\ AllWritten /\ fs # fs0 /\ log = <<"command">>

\* ------------------------------------------------------------------------
\* Claims about repeated targets (Spec)
\* ------------------------------------------------------------------------

\* The paths of the command line, as they are written.
GivenPaths == {args.files[i] : i \in 1..Len(args.files)}

\* What a run naming the file once writes to it.
SingleRun(file) ==
  getFileChanges(fs0, file, baseVersion, newVersion, replacements, date)

\* The run has gone through all its writes and has ended without an error.
Succeeded == pc = "exited" /\ endedIn \in {"gitless", "dry", "done", "norepo"}

\* C23 as claimed: a file that the target list names more than once, in
\* whatever spelling, is computed and written exactly once.
C23_ProcessedOnce ==
  \A i, j \in 1..Len(todo) : todo[i][1] = todo[j][1] => i = j

\* C23: the targets are deduplicated as path strings before they are made
\* relative: there is one target for each distinct path string given, a path
\* given twice in the same spelling is computed and written once, two
\* spellings of one file are computed and written once each with the same
\* content, the repetition does not make the run fail, and the file ends
\* with the content of a run that names it once.
C23_DedupByPathString ==
  /\ Len(Files) = Cardinality(GivenPaths)
  /\ \A i, j \in 1..Len(todo) :
       todo[i][1] = todo[j][1]
         => /\ (i = j \/ uniq(args.files)[i] # uniq(args.files)[j])
            /\ todo[i][2] = todo[j][2]
  /\ \A i \in 1..Len(todo) : todo[i][2] = SingleRun(todo[i][1]).val
  /\ Succeeded => \A i \in 1..Len(Files) :
                    fs[Files[i]].data = SingleRun(Files[i]).val
  /\ (pc = "exited" /\ Len(args.files) > 1
        /\ \A i \in 1..Len(Files) : Files[i] = "testfile")
       => endedIn \notin {"stat", "compute"}

\* C23 witness: the run named testfile twice in one spelling; it has
\* computed and written it once and has ended well.
C23_Witness ==
  /\ args.files = <<"testfile", "testfile">>
  /\ Succeeded /\ Len(todo) = 1
  /\ fs["testfile"].data = SingleRun("testfile").val
  /\ fs # fs0

\* ------------------------------------------------------------------------
\* Claims about the end of a run (Spec)
\* ------------------------------------------------------------------------

\* The places where a run ends because of a failure.
FailurePlaces ==
  {"resolve", "validate", "increment", "replace", "stat", "compute", "write",
   "command", "commit", "tag", "release"}

\* Every step the options ask for, up to the tag, has been taken.
Completed ==
  /\ AllWritten
  /\ args.command => Ran("command")
  /\ (~args.gitless /\ ~args.dry) => Ran("commit") /\ Ran("tag")

\* C24: a run exits with 0 exactly when it ended without an error, and then
\* (unless it only printed the usage) every step it was asked for up to the
\* tag has been taken; a run that fails, at the resolution, the validation,
\* the increment, the rules, the targets, the mutation, a write, the
\* command or a VCS step, exits with a non-zero code.
C24_ExitCode ==
  pc = "exited"
    => /\ exitCode = 0 <=> errMsg = ""
       /\ exitCode = 0 <=> endedIn \notin FailurePlaces
       /\ (exitCode = 0 /\ endedIn # "usage") => Completed

\* C24 witness: the files are written and committed, the tag fails, and
\* the run exits with 1.
C24_Witness ==
  /\ pc = "exited" /\ endedIn = "tag" /\ exitCode = 1
  /\ AllWritten /\ fs # fs0 /\ Ran("commit")

\* ------------------------------------------------------------------------
\* Claims about the validity predicate (SpecSemver)
\* ------------------------------------------------------------------------

\* A number without a leading zero.
PlainNumber(n) ==
  Len(n) > 0 /\ AllIn(n, Digits) /\ (n = "0" \/ Ch(n, 1) # "0")

\* major.minor.patch, the dots at whatever positions fit.
CoreText(c) ==
  \E i, j \in 1..Len(c) :
    /\ i < j /\ Ch(c, i) = "." /\ Ch(c, j) = "."
    /\ PlainNumber(Upto(c, i - 1))
    /\ PlainNumber(SubSeq(c, i + 1, j - 1))
    /\ PlainNumber(From(c, j + 1))

\* One or more identifiers with dots between them; the numeric ones have no
\* leading zero unless zeros are allowed.
IdentifierList(l, zeros) ==
  LET Good(ids) ==
        \A k \in 1..Len(ids) :
          /\ Len(ids[k]) > 0 /\ AllIn(ids[k], IdentChars)
          /\ (~zeros /\ AllIn(ids[k], Digits)) => PlainNumber(ids[k])
  IN  Good(Split(l, "."))

\* The grammar of the claim: [v] core [-prerelease] [+build], the "-" at d and
\* the "+" at p, 0 when the part is not there.
SemverText(s) ==
  LET Fits(t) ==
        \E d, p \in 0..Len(t) :
          /\ d = 0 \/ Ch(t, d) = "-"
          /\ p = 0 \/ (Ch(t, p) = "+" /\ p > d)
          /\ CoreText(Upto(t, IF d # 0 THEN d - 1
                              ELSE IF p # 0 THEN p - 1 ELSE Len(t)))
          /\ d # 0 => IdentifierList(
                        SubSeq(t, d + 1, IF p # 0 THEN p - 1 ELSE Len(t)), FALSE)
          /\ p # 0 => IdentifierList(From(t, p + 1), TRUE)
  IN  Fits(IF Ch(s, 1) = "v" THEN From(s, 2) ELSE s)

\* C25: isSemver(s) is true exactly when s, without one leading "v", is
\* major.minor.patch of numbers without leading zeros, with an optional
\* "-" and dot-separated prerelease identifiers and an optional "+" and
\* build identifiers: incrementSemver takes a version exactly when it has
\* this form, and isSemver of each result agrees with the form.
C25_ValidityPredicate ==
  /\ Incremented => SemverText(baseVersion)
  /\ (pc = "thrown" /\ level \in NumericLevels) => ~SemverText(baseVersion)
  /\ Incremented => (isSemver(newVersion) <=> SemverText(newVersion))
  /\ isSemver("1.0.0-pre-1.0.0") /\ ~isSemver("1.2.3-0123")

\* C25 witness: 1.2.3-0123, a numeric prerelease identifier with a leading
\* zero, is rejected.
C25_Witness ==
  /\ pc = "thrown" /\ level = "patch" /\ errMsg = "Invalid semver"
  /\ baseVersion = "1.2.3-0123"

\* ------------------------------------------------------------------------
\* Claims about the descriptor (SpecResolve)
\* ------------------------------------------------------------------------

\* Whether the value at project.version is valid semver.
ProjectIsValid ==
  descriptor.project # "" /\ descriptor.projectIsString
    /\ isSemver(descriptor.project)

\* The first of project.version and tool.poetry.version that is valid
\* semver, "" when neither is.
FirstValidLocation ==
  IF ProjectIsValid THEN StripV(descriptor.project)
  ELSE IF descriptor.poetry # "" /\ isSemver(descriptor.poetry)
       THEN StripV(descriptor.poetry)
  ELSE ""

\* The descriptor decides: no base, no usable tag, no manifest version, and
\* a descriptor that parses.
DescriptorDecides ==
  /\ args.base = "" /\ ~HasUsableTag /\ ManifestSource = ""
  /\ descriptor.found /\ descriptor.parses

\* C26: when the descriptor decides, the base version is the first of
\* project.version and tool.poetry.version that is valid semver:
\* project.version when both are valid, tool.poetry.version when
\* project.version is absent or not valid semver.
C26_DescriptorLocations ==
  (DescriptorDecides /\ FirstValidLocation # "" /\ pc # "start")
    => Resolved /\ baseVersion = FirstValidLocation

\* ------------------------------------------------------------------------
\* Claims about the write phase (Spec)
\* ------------------------------------------------------------------------

\* The run has ended in the write of todo[idx].
WriteFailed == pc = "exited" /\ endedIn = "write"

\* C27: when the write of the k-th target fails, the targets written before
\* it hold their new content and the targets after it hold their old
\* content, nothing is rolled back, and no command, commit or tag runs
\* (the file of the failed write itself is not spoken of).
C27_PartialWrite ==
  WriteFailed
    => /\ \A i \in 1..(idx - 1) :
            todo[i][1] # todo[idx][1] => fs[todo[i][1]].data = todo[i][2]
       /\ \A i \in (idx + 1)..Len(todo) :
            (\A j \in 1..idx : todo[j][1] # todo[i][1])
              => fs[todo[i][1]].data = fs0[todo[i][1]].data
       /\ log = <<>> /\ exitCode # 0

\* C27 witness: of the three targets the first is written, the write of the
\* second has failed and the third is as it was.
C27_Witness ==
  /\ WriteFailed /\ idx = 2 /\ Len(todo) = 3
  /\ fs[todo[1][1]].data = todo[1][2]
  /\ fs[todo[1][1]].data # fs0[todo[1][1]].data
  /\ fs[todo[3][1]].data = fs0[todo[3][1]].data
  /\ todo[3][2] # fs0[todo[3][1]].data

\* ------------------------------------------------------------------------
\* Claims about the dry run (Spec)
\* ------------------------------------------------------------------------

\* C28: a run with --dry and without --gitless still writes its targets and
\* still runs the command when there is one; it skips the commit, the tag
\* and the release only, and unless it has failed before it ends behind the
\* command with exit code 0.
C28_DryRunWrites ==
  (args.dry /\ ~args.gitless)
    => /\ pc \in {"command", "git"} => AllWritten
       /\ pc = "git" => log = (IF args.command THEN <<"command">> ELSE <<>>)
       /\ (pc = "exited" /\ endedIn \notin FailurePlaces \cup {"usage"})
            => /\ endedIn = "dry" /\ exitCode = 0
               /\ AllWritten
               /\ log = (IF args.command THEN <<"command">> ELSE <<>>)
       /\ pc = "exited" => endedIn \notin {"commit", "tag", "release", "done"}

\* C28 witness: a dry run with a command and a release asked for has
\* rewritten its target, has run the command and has exited with 0.
C28_Witness ==
  /\ args.dry /\ ~args.gitless /\ args.command /\ args.release
  /\ pc = "exited" /\ endedIn = "dry" /\ exitCode = 0
  /\ Files = <<"testfile">> /\ fs["testfile"].data = todo[1][2]
  /\ fs # fs0 /\ log = <<"command">>

\* ------------------------------------------------------------------------
\* Claims about chained increments (SpecSemver)
\* ------------------------------------------------------------------------

\* A preid that is one prerelease identifier of a semver.
IsTrackName(p) ==
  p # "" /\ AllIn(p, IdentChars) /\ (AllIn(p, Digits) => PlainNumber(p))

\* M.m.P without a leading "v" and without a prerelease.
IsStableBase(v) ==
  SemverText(v) /\ ~StartsWith(v, "v") /\ VPrerelease(v) = ""

\* M.m.(P+1)-p.n for the base M.m.P.
ChainVersion(base, p, n) ==
  LET Of(t) == TripleStr(<<t[1], t[2], t[3] + 1>>) \o "-" \o p \o "." \o NumStr(n)
  IN  Of(VCore(base))

\* The step taken is an increment of level prerelease with a track name.
ChainIncrement ==
  steps' = steps + 1 /\ level' = "prerelease" /\ IsTrackName(preid')

\* The first increment of a chain: from a stable base to M.m.(P+1)-p.0.
ChainFirst ==
  (ChainIncrement /\ IsStableBase(baseVersion'))
    => pc' = "semver" /\ newVersion' = ChainVersion(baseVersion', preid', 0)

\* The second increment of a chain, the base of the first still at hand:
\* M.m.(P+1)-p.1.
ChainSecond ==
  (ChainIncrement /\ Incremented /\ steps = 1 /\ level = "prerelease"
     /\ preid = preid' /\ IsStableBase(baseVersion))
    => pc' = "semver" /\ newVersion' = ChainVersion(baseVersion, preid, 1)

\* Every later increment of a chain: the triple stays and the counter rises
\* by exactly 1.
ChainLater ==
  (ChainIncrement /\ Incremented /\ level = "prerelease" /\ preid = preid'
     /\ IsTrackName(preid) /\ IsCounterOf(VPrerelease(newVersion), preid))
    => /\ pc' = "semver"
       /\ VCore(newVersion') = VCore(newVersion)
       /\ IsCounterOf(VPrerelease(newVersion'), preid)
       /\ Number(From(VPrerelease(newVersion'), Len(preid) + 2))
            = Number(From(VPrerelease(newVersion), Len(preid) + 2)) + 1

\* C29: from a base M.m.P without prerelease, k >= 1 successive increments
\* of level prerelease with the same preid p, each on the result of the one
\* before, give M.m.(P+1)-p.(k-1): the first bumps the patch and starts the
\* counter at 0, each later one leaves the triple and adds 1 to the counter.
C29_ChainedPrerelease ==
  [][ChainFirst /\ ChainSecond /\ ChainLater]_vars

\* C29 witness: the second increment of the chain 1.2.3, 1.2.4-alpha.0,
\* 1.2.4-alpha.1.
C29_Witness ==
  /\ Incremented /\ steps = 2 /\ level = "prerelease" /\ preid = "alpha"
  /\ baseVersion = "1.2.4-alpha.0"
  /\ newVersion = "1.2.4-alpha.1"

\* ------------------------------------------------------------------------
\* Claims about the lockfiles and the base version (SpecMutate)
\* ------------------------------------------------------------------------

\* Base versions other than the one of the call.
OtherBases == {"1.0.0", "2.0.0", "9.9.9", "2.0.0-a+b"}

\* The outcome of the call with the base version b in place of baseVersion.
WithBase(b) ==
  getFileChanges(fs0, Files[1], b, newVersion, replacements, date)

\* The call for a lockfile is over.
LockfileCall ==
  /\ IsLockfile(Files[1])
  /\ Returned \/ (pc = "exited" /\ endedIn = "compute")

====
